---- MODULE Spec2Model ----
(***************************************************************************)
(* Kalycs desktop: the classification pipeline (catalog store, validation, *)
(* rule compiler, classifier, lifecycle facade) as a state machine.        *)
(*                                                                         *)
(* Strings are sequences of one-character strings; identifiers are short   *)
(* strings whose UUID shape is given by IdLen / IdHyphens; instants are    *)
(* integers counted in clock ticks (TicksPerSecond ticks to a second).     *)
(***************************************************************************)
EXTENDS Integers, Sequences, FiniteSets, TLC

VARIABLES
    phase,              \* "new" before App.startup, "running" after it
    projects,           \* rows of table projects
    rules,              \* rows of table rules
    files,              \* rows of table files
    heap,               \* backing arrays of []CompiledRule slices, by address
    cset,               \* Classifier.set: a slice header [ptr, len]
    incomingProjectID,  \* Classifier.incomingProjectID
    now,                \* wall clock, in ticks
    nextPid,            \* number of project ids GenerateID has handed out
    nextRid,            \* number of rule ids GenerateID has handed out
    ret,                \* what the last facade / classifier call returned
    cl,                 \* in-flight Classify calls, by goroutine
    rl,                 \* in-flight Reload calls, by goroutine
    db,                 \* the package's database handle
    fs,                 \* what is at each path of the watched folder
    wt,                 \* the watcher: subscription, context, loop, events
    imp,                \* the walk of ImportFolder in progress
    txn                 \* the last call of a transaction helper

vars == <<phase, projects, rules, files, heap, cset, incomingProjectID, now,
          nextPid, nextRid, ret, cl, rl, db, fs, wt, imp, txn>>

-----------------------------------------------------------------------------
(* Bounds of the model *)

MaxProjectIds == 2
MaxRuleIds == 2
MaxNamedProjects == 3
MaxClock == 2
NAddrs == 2
TicksPerSecond == 2
MaxHandles == 3
MaxEvents == 2

(* Program constants *)

MaxProjectNameLength == 25
MaxProjectDescriptionLength == 200
MinProjectNameLength == 1
MaxRuleNameLength == 25
MaxRuleTextLength == 64
MaxRuleTextsItems == 20
UUIDLength == 36
UUIDHyphenCount == 4

-----------------------------------------------------------------------------
(* Strings *)

ToLowerChar(c) ==
    CASE c = "A" -> "a"
      [] c = "B" -> "b"
      [] c = "D" -> "d"
      [] c = "I" -> "i"
      [] c = "P" -> "p"
      [] OTHER -> c

\* strings.ToLower
ToLower(s) == [i \in 1..Len(s) |-> ToLowerChar(s[i])]

\* the bytes isWhitespace accepts
AsciiSpace == {" ", "TAB", "LF", "CR", "FF", "VT"}

\* the runes unicode.IsSpace accepts (strings.TrimSpace)
UnicodeSpace == AsciiSpace \cup {"NBSP"}

RECURSIVE TrimLeft(_, _)
TrimLeft(s, ws) ==
    IF s # <<>> /\ Head(s) \in ws THEN TrimLeft(Tail(s), ws) ELSE s

RECURSIVE TrimRight(_, _)
TrimRight(s, ws) ==
    IF s # <<>> /\ s[Len(s)] \in ws
    THEN TrimRight(SubSeq(s, 1, Len(s) - 1), ws)
    ELSE s

\* strings.TrimSpace
TrimSpace(s) == TrimRight(TrimLeft(s, UnicodeSpace), UnicodeSpace)

trimWhitespace(s) == TrimRight(TrimLeft(s, AsciiSpace), AsciiSpace)

normalizeString(s) == IF s = <<>> THEN s ELSE trimWhitespace(s)

\* strings.ContainsAny
ContainsAny(s, chars) == \E i \in 1..Len(s) : s[i] \in chars

HasPrefix(s, t) == Len(t) <= Len(s) /\ SubSeq(s, 1, Len(t)) = t

HasSuffix(s, t) ==
    Len(t) <= Len(s) /\ SubSeq(s, Len(s) - Len(t) + 1, Len(s)) = t

\* strings.Contains
Contains(s, t) ==
    \E i \in 0..(Len(s) - Len(t)) : SubSeq(s, i + 1, i + Len(t)) = t

\* the permutations of a finite set, as sequences
Perms(S) ==
    {f \in [1..Cardinality(S) -> S] :
        \A i, j \in 1..Cardinality(S) : i # j => f[i] # f[j]}

-----------------------------------------------------------------------------
(* Identifiers and time *)

GeneratedProjectIds == <<"p1", "p2", "p3", "p4", "p5">>
GeneratedRuleIds == <<"r1", "r2", "r3", "r4">>
GeneratedFileIds == <<"f1", "f2", "f3">>

\* a well-formed UUID the caller supplies itself
CallerUUID == "u1"

UUIDs ==
    {GeneratedProjectIds[i] : i \in 1..Len(GeneratedProjectIds)}
    \cup {GeneratedRuleIds[i] : i \in 1..Len(GeneratedRuleIds)}
    \cup {GeneratedFileIds[i] : i \in 1..Len(GeneratedFileIds)}
    \cup {CallerUUID}

\* len(id) and strings.Count(id, "-") of the identifiers of the model
IdLen(id) == IF id \in UUIDs THEN UUIDLength ELSE IF id = "" THEN 0 ELSE 3
IdHyphens(id) == IF id \in UUIDs THEN UUIDHyphenCount ELSE 0

\* GenerateID: a UUID never handed out before
GenerateProjectID == GeneratedProjectIds[nextPid + 1]
GenerateRuleID == GeneratedRuleIds[nextRid + 1]

\* time.Now().UTC()
GoNow == now

\* SQLite's CURRENT_TIMESTAMP: the clock cut to whole seconds
CurrentTimestamp == now - (now % TicksPerSecond)

-----------------------------------------------------------------------------
(* Validation *)

validateProjectName(name) ==
    LET trimmedName == TrimSpace(name) IN
    /\ trimmedName # <<>>
    /\ Len(trimmedName) <= MaxProjectNameLength
    /\ Len(trimmedName) >= MinProjectNameLength
    /\ ~ContainsAny(trimmedName, {"TAB", "LF", "CR", "FF", "VT"})
    /\ ~Contains(trimmedName, <<" ", " ">>)

validateProjectDescription(description) ==
    \/ description = <<>>
    \/ LET trimmedDescription == TrimSpace(description) IN
       /\ Len(trimmedDescription) <= MaxProjectDescriptionLength
       /\ ~ContainsAny(trimmedDescription, {"FF", "VT"})

validateUUID(id) ==
    /\ id # ""
    /\ IdLen(id) = UUIDLength
    /\ IdHyphens(id) = UUIDHyphenCount

ValidateID(id) == validateUUID(id)

\* TRUE when validation passes
ValidateProject(p) ==
    /\ validateProjectName(p.name)
    /\ validateProjectDescription(p.description)
    /\ (p.id # "" => validateUUID(p.id))

-----------------------------------------------------------------------------
(* Table projects and the project repository *)

ProjectIdsInUse == {p.id : p \in projects}

\* a projects table without UNIQUE on name
ProjectConstraintsNoUnique(row, others) ==
    /\ \A q \in others : q.id # row.id
    /\ Len(row.name) <= MaxProjectNameLength
    /\ Len(row.description) <= MaxProjectDescriptionLength

\* the constraints of table projects on a candidate row, the row it replaces
\* (if any) left out: PRIMARY KEY, UNIQUE(name), the two CHECKs
ProjectConstraintsOk(row, others) ==
    /\ \A q \in others : q.id # row.id
    /\ \A q \in others : q.name # row.name
    /\ Len(row.name) <= MaxProjectNameLength
    /\ Len(row.description) <= MaxProjectDescriptionLength

\* projectRepo.GetByName: the row, or none
GetByName(name) == {p \in projects : p.name = name}

\* NormalizeProjectData
NormalizeProjectData(p) ==
    [p EXCEPT !.name = normalizeString(p.name),
              !.description = normalizeString(p.description)]

\* PrepareProjectForCreation, given the id GenerateID would return
PrepareProjectForCreation(p, fresh) ==
    [id |-> IF p.id = "" THEN fresh ELSE p.id,
     name |-> p.name,
     description |-> p.description,
     is_active |-> p.is_active,
     created_at |-> GoNow,
     updated_at |-> GoNow]

\* projectRepo.Create: [err, projects, id, gen]
ProjectCreate(p) ==
    IF ~ValidateProject(p)
    THEN [err |-> "validation", projects |-> projects, id |-> p.id, gen |-> 0]
    ELSE
      LET row == PrepareProjectForCreation(NormalizeProjectData(p),
                                           GenerateProjectID)
          gen == IF p.id = "" THEN 1 ELSE 0
      IN IF ProjectConstraintsOk(row, projects)
         THEN [err |-> "nil", projects |-> projects \cup {row},
               id |-> row.id, gen |-> gen]
         ELSE [err |-> "already_exists", projects |-> projects,
               id |-> row.id, gen |-> 0]

\* the AFTER UPDATE trigger of table projects
ProjectTrigger(row) == [row EXCEPT !.updated_at = CurrentTimestamp]

\* projectRepo.Update: [err, projects]
ProjectUpdate(p) ==
    IF p.id = ""
    THEN [err |-> "empty_id", projects |-> projects]
    ELSE IF ~ValidateProject(p)
    THEN [err |-> "validation", projects |-> projects]
    ELSE
      LET n == NormalizeProjectData(p)
          hit == {q \in projects : q.id = n.id}
      IN IF hit = {}
         THEN [err |-> "not_found", projects |-> projects]
         ELSE
           LET old == CHOOSE q \in hit : TRUE
               row == [old EXCEPT !.name = n.name,
                                  !.description = n.description,
                                  !.is_active = n.is_active,
                                  !.updated_at = GoNow]
           IN IF ProjectConstraintsOk(row, projects \ {old})
              THEN [err |-> "nil",
                    projects |-> (projects \ {old}) \cup {ProjectTrigger(row)}]
              ELSE [err |-> "already_exists", projects |-> projects]

\* the AFTER UPDATE trigger of table files
FileTrigger(row) == [row EXCEPT !.updated_at = CurrentTimestamp]

NullProjectID == [valid |-> FALSE, str |-> ""]

\* FOREIGN KEY (project_id) REFERENCES projects(id) ON DELETE SET NULL
FilesOnDeleteProject(id) ==
    {IF f.project_id.valid /\ f.project_id.str = id
     THEN FileTrigger([f EXCEPT !.project_id = NullProjectID])
     ELSE f : f \in files}

\* FOREIGN KEY (project_id) REFERENCES projects(id) ON DELETE CASCADE
RulesOnDeleteProject(id) == {r \in rules : r.project_id # id}

\* projectRepo.Delete: [err, projects, rules, files]
ProjectDelete(id) ==
    LET same(e) == [err |-> e, projects |-> projects, rules |-> rules,
                    files |-> files]
    IN IF id = "" THEN same("empty_id")
       ELSE IF ~ValidateID(id) THEN same("invalid_id")
       ELSE IF id \notin ProjectIdsInUse THEN same("not_found")
       ELSE [err |-> "nil",
             projects |-> {q \in projects : q.id # id},
             rules |-> RulesOnDeleteProject(id),
             files |-> FilesOnDeleteProject(id)]

-----------------------------------------------------------------------------
(* Rule texts, regular expressions *)

\* The texts column holds JSON text.  A value of the model is the parse of
\* that text: valid = FALSE for text that is not a JSON array of strings.
\* An element of the array is a JSON string, or null (JSONNull); "BAD" in a
\* string stands for a byte that is not valid UTF-8.
JSONNull == <<"NULL">>

\* encoding/json on one string: invalid UTF-8 becomes U+FFFD, in both
\* directions
Coerce(str) == [i \in 1..Len(str) |-> IF str[i] = "BAD" THEN "FFFD" ELSE str[i]]

\* json.Unmarshal into []string: null leaves the element ""
Unmarshal(texts) ==
    IF texts.valid
    THEN [err |-> FALSE,
          texts |-> [i \in 1..Len(texts.items) |->
                        IF texts.items[i] = JSONNull THEN <<>>
                        ELSE Coerce(texts.items[i])]]
    ELSE [err |-> TRUE, texts |-> <<>>]

\* json.Marshal of []string
Marshal(items) ==
    [valid |-> TRUE, items |-> [i \in 1..Len(items) |-> Coerce(items[i])]]

NilRegexp == [nil |-> TRUE, fold |-> FALSE, anchored |-> FALSE, lit |-> <<>>]

\* the pattern after its leading "(?i)" flag groups
RECURSIVE StripFlags(_)
StripFlags(pattern) ==
    IF pattern # <<>> /\ Head(pattern) = "(?i)"
    THEN StripFlags(Tail(pattern))
    ELSE pattern

\* the escapes of the patterns of the model: \d, a digit, and \D, anything
\* but a digit
EscapeClasses == {"d", "D"}

Digits == {"1"}

\* a backslash at the end of the pattern or before a letter that names no
\* escape
RECURSIVE BadEscape(_)
BadEscape(lit) ==
    IF lit = <<>> THEN FALSE
    ELSE IF Head(lit) = "\\"
    THEN \/ Len(lit) < 2
         \/ lit[2] \notin EscapeClasses
         \/ BadEscape(SubSeq(lit, 3, Len(lit)))
    ELSE BadEscape(Tail(lit))

\* regexp.Compile on the patterns of the model: literal characters and the
\* escapes \d and \D after optional leading "(?i)" flag groups and an
\* optional "^"; an unclosed "(" or "[" and a bad escape are syntax errors
regexpCompile(pattern) ==
    LET fold == pattern # <<>> /\ Head(pattern) = "(?i)"
        body == StripFlags(pattern)
        anchored == body # <<>> /\ Head(body) = "^"
        lit == IF anchored THEN Tail(body) ELSE body
    IN IF ContainsAny(lit, {"(", "[", "(?i)"}) \/ BadEscape(lit)
       THEN [err |-> TRUE, re |-> NilRegexp]
       ELSE [err |-> FALSE,
             re |-> [nil |-> FALSE, fold |-> fold, anchored |-> anchored,
                     lit |-> lit]]

\* the pattern as a sequence of atoms, each matching one character
RECURSIVE Atoms(_)
Atoms(lit) ==
    IF lit = <<>> THEN <<>>
    ELSE IF Head(lit) = "\\"
    THEN <<[class |-> TRUE, c |-> lit[2]]>> \o Atoms(SubSeq(lit, 3, Len(lit)))
    ELSE <<[class |-> FALSE, c |-> Head(lit)]>> \o Atoms(Tail(lit))

\* one atom against one character; under "(?i)" a literal matches both cases
AtomMatches(atom, x, fold) ==
    IF atom.class THEN (atom.c = "d") = (x \in Digits)
    ELSE IF fold THEN ToLowerChar(x) = ToLowerChar(atom.c)
    ELSE x = atom.c

\* the atoms match the characters of s after the first k
MatchAt(atoms, s, k, fold) ==
    /\ k + Len(atoms) <= Len(s)
    /\ \A j \in 1..Len(atoms) : AtomMatches(atoms[j], s[k + j], fold)

\* (*Regexp).MatchString
MatchString(re, s) ==
    LET atoms == Atoms(re.lit) IN
    IF re.anchored THEN MatchAt(atoms, s, 0, re.fold)
    ELSE \E k \in 0..Len(s) : MatchAt(atoms, s, k, re.fold)

\* a loop that takes one white-space character off the front of each text
TrimmedTextsOnce(texts) ==
    [i \in 1..Len(texts) |->
        IF texts[i] # <<>> /\ Head(texts[i]) \in UnicodeSpace
        THEN Tail(texts[i]) ELSE texts[i]]

\* the loop of Validate over the texts: trim each, keep the non-empty
RECURSIVE TrimmedTexts(_)
TrimmedTexts(texts) ==
    IF texts = <<>> THEN <<>>
    ELSE LET trimmed == TrimSpace(Head(texts)) IN
         IF trimmed # <<>> THEN <<trimmed>> \o TrimmedTexts(Tail(texts))
         ELSE TrimmedTexts(Tail(texts))

\* RuleValidator.Validate: [err, rule], rule being r as Validate leaves it
RuleValidate(r) ==
    LET name == TrimSpace(r.name)
        parsed == Unmarshal(r.texts)
        trimmedTexts == TrimmedTexts(parsed.texts)
        r1 == [r EXCEPT !.name = name]
        r2 == [r1 EXCEPT !.texts = Marshal(trimmedTexts)]
    IN IF parsed.err THEN [err |-> "validation", rule |-> r1]
       ELSE IF Len(name) = 0 \/ Len(name) > MaxRuleNameLength
       THEN [err |-> "validation", rule |-> r1]
       ELSE IF Len(trimmedTexts) = 0 \/ Len(trimmedTexts) > MaxRuleTextsItems
       THEN [err |-> "validation", rule |-> r1]
       ELSE IF \E i \in 1..Len(trimmedTexts) :
                   Len(trimmedTexts[i]) > MaxRuleTextLength
       THEN [err |-> "validation", rule |-> r1]
       ELSE IF r.rule = "regex"
               /\ (Len(trimmedTexts) # 1 \/ regexpCompile(trimmedTexts[1]).err)
       THEN [err |-> "validation", rule |-> r2]
       ELSE [err |-> "nil", rule |-> r2]

-----------------------------------------------------------------------------
(* Table rules and the rule repository *)

ValidRuleTypes == {"starts_with", "contains", "ends_with", "extension", "regex"}

RuleIdsInUse == {r.id : r \in rules}

\* a rules table whose foreign key is not enforced
RuleForeignKeyOff(row) == TRUE

\* FOREIGN KEY (project_id) REFERENCES projects(id), foreign keys being on
RuleForeignKeyOk(row) == row.project_id \in ProjectIdsInUse

\* the constraints of table rules on a candidate row
RuleConstraintsOk(row, others) ==
    /\ \A q \in others : q.id # row.id
    /\ Len(row.name) <= MaxRuleNameLength
    /\ row.rule \in ValidRuleTypes
    /\ RuleForeignKeyOk(row)

\* the AFTER UPDATE trigger of table rules
RuleTrigger(row) == [row EXCEPT !.updated_at = CurrentTimestamp]

\* ruleRepo.Create: [err, rules, gen]
RuleCreate(r) ==
    LET v == RuleValidate(r) IN
    IF v.err # "nil" THEN [err |-> v.err, rules |-> rules, gen |-> 0]
    ELSE
      LET row == [id |-> GenerateRuleID,
                  name |-> v.rule.name,
                  project_id |-> v.rule.project_id,
                  rule |-> v.rule.rule,
                  texts |-> v.rule.texts,
                  case_sensitive |-> v.rule.case_sensitive,
                  created_at |-> CurrentTimestamp,
                  updated_at |-> CurrentTimestamp]
      IN IF RuleConstraintsOk(row, rules)
         THEN [err |-> "nil", rules |-> rules \cup {row}, gen |-> 1]
         ELSE [err |-> "storage", rules |-> rules, gen |-> 0]

\* ruleRepo.Update: [err, rules]
RuleUpdate(r) ==
    LET v == RuleValidate(r) IN
    IF v.err # "nil" THEN [err |-> v.err, rules |-> rules]
    ELSE
      LET hit == {q \in rules : q.id = v.rule.id} IN
      IF hit = {} THEN [err |-> "not_found", rules |-> rules]
      ELSE
        LET old == CHOOSE q \in hit : TRUE
            row == [old EXCEPT !.name = v.rule.name,
                               !.project_id = v.rule.project_id,
                               !.rule = v.rule.rule,
                               !.texts = v.rule.texts,
                               !.case_sensitive = v.rule.case_sensitive]
        IN IF RuleConstraintsOk(row, rules \ {old})
           THEN [err |-> "nil",
                 rules |-> (rules \ {old}) \cup {RuleTrigger(row)}]
           ELSE [err |-> "storage", rules |-> rules]

\* ruleRepo.Delete: [err, rules]
RuleDelete(id) ==
    IF id \notin RuleIdsInUse THEN [err |-> "not_found", rules |-> rules]
    ELSE [err |-> "nil", rules |-> {q \in rules : q.id # id}]

\* the rows ruleRepo.ListActive selects from tables rs and ps
ActiveRules(rs, ps) ==
    {r \in rs : \E p \in ps : r.project_id = p.id /\ p.is_active}

\* ruleRepo.ListActive: the query has no ORDER BY, so the rows come in an
\* order the storage engine chooses
ListActive(rs, ps) == Perms(ActiveRules(rs, ps))

-----------------------------------------------------------------------------
(* Rule compiler and match predicate *)

RECURSIVE LowerAll(_)
LowerAll(texts) ==
    IF texts = <<>> THEN <<>>
    ELSE <<ToLower(Head(texts))>> \o LowerAll(Tail(texts))

\* compileRule as it was before the "(?i)" flag: the texts of every
\* case-insensitive rule are lower-cased, the pattern of a regex rule
\* included, and the pattern is compiled as it then stands
compileRuleLowered(r) ==
    LET parsed == Unmarshal(r.texts)
        cr == [RuleID |-> r.id,
               ProjectID |-> r.project_id,
               Kind |-> r.rule,
               CaseSensitive |-> r.case_sensitive,
               Texts |-> IF r.case_sensitive THEN parsed.texts
                         ELSE LowerAll(parsed.texts),
               Regexp |-> NilRegexp,
               Priority |-> 0]
    IN IF parsed.err THEN [err |-> TRUE, cr |-> cr]
       ELSE IF cr.Kind = "regex"
       THEN IF Len(cr.Texts) = 0 THEN [err |-> TRUE, cr |-> cr]
            ELSE LET c == regexpCompile(cr.Texts[1])
                 IN IF c.err THEN [err |-> TRUE, cr |-> cr]
                    ELSE [err |-> FALSE, cr |-> [cr EXCEPT !.Regexp = c.re]]
       ELSE [err |-> FALSE, cr |-> cr]

\* compileRule: [err, cr]
compileRule(r) ==
    LET parsed == Unmarshal(r.texts)
        cr == [RuleID |-> r.id,
               ProjectID |-> r.project_id,
               Kind |-> r.rule,
               CaseSensitive |-> r.case_sensitive,
               Texts |-> parsed.texts,
               Regexp |-> NilRegexp,
               Priority |-> 0]
    IN IF parsed.err THEN [err |-> TRUE, cr |-> cr]
       ELSE IF cr.Kind = "regex"
       THEN IF Len(cr.Texts) = 0 THEN [err |-> TRUE, cr |-> cr]
            ELSE LET pattern == IF ~cr.CaseSensitive
                                THEN <<"(?i)">> \o cr.Texts[1]
                                ELSE cr.Texts[1]
                     c == regexpCompile(pattern)
                 IN IF c.err THEN [err |-> TRUE, cr |-> cr]
                    ELSE [err |-> FALSE, cr |-> [cr EXCEPT !.Regexp = c.re]]
       ELSE IF ~cr.CaseSensitive
       THEN [err |-> FALSE, cr |-> [cr EXCEPT !.Texts = LowerAll(cr.Texts)]]
       ELSE [err |-> FALSE, cr |-> cr]

\* a loop that gives up at the first rule that does not compile
RECURSIVE CompileUntilError(_)
CompileUntilError(listed) ==
    IF listed = <<>> THEN <<>>
    ELSE LET c == compileRule(Head(listed)) IN
         IF c.err THEN <<>>
         ELSE <<c.cr>> \o CompileUntilError(Tail(listed))

\* the loop of Reload over the listed rules: compile, skip what fails
RECURSIVE CompileAll(_)
CompileAll(listed) ==
    IF listed = <<>> THEN <<>>
    ELSE LET c == compileRule(Head(listed)) IN
         IF c.err THEN CompileAll(Tail(listed))
         ELSE <<c.cr>> \o CompileAll(Tail(listed))

Range(seq) == {seq[i] : i \in 1..Len(seq)}

IsSortedByPriority(seq) ==
    \A i, j \in 1..Len(seq) : i < j => ~(seq[j].Priority < seq[i].Priority)

\* sort.Slice by Priority: some arrangement in ascending priority (the sort
\* is not stable, so elements of equal priority may come in any order)
SortSlice(compiled) ==
    {s \in Perms(Range(compiled)) : IsSortedByPriority(s)}

\* matches
matches(r, name, ext) ==
    LET testName == IF ~r.CaseSensitive /\ r.Kind # "regex"
                    THEN ToLower(name) ELSE name
        any(P(_)) == \E i \in 1..Len(r.Texts) : P(r.Texts[i])
    IN CASE r.Kind = "starts_with" ->
              LET P(t) == HasPrefix(testName, t) IN any(P)
         [] r.Kind = "contains" ->
              LET P(t) == Contains(testName, t) IN any(P)
         [] r.Kind = "ends_with" ->
              LET P(t) == HasSuffix(testName, t) IN any(P)
         [] r.Kind = "extension" ->
              LET testExt == IF ~r.CaseSensitive THEN ToLower(ext) ELSE ext
                  P(t) == testExt = t
              IN any(P)
         [] r.Kind = "regex" -> MatchString(r.Regexp, name)
         [] OTHER -> FALSE

\* the index of the last "." of name, 0 when there is none
RECURSIVE LastDot(_)
LastDot(name) ==
    IF name = <<>> THEN 0
    ELSE IF name[Len(name)] = "." THEN Len(name)
    ELSE LastDot(SubSeq(name, 1, Len(name) - 1))

\* filepath.Ext, then Classify's cut of the leading dot
ExtOf(name) ==
    IF LastDot(name) = 0 THEN <<>>
    ELSE SubSeq(name, LastDot(name) + 1, Len(name))

\* the index of the last "/" of path, 0 when there is none
RECURSIVE LastSlash(_)
LastSlash(path) ==
    IF path = <<>> THEN 0
    ELSE IF path[Len(path)] = "/" THEN Len(path)
    ELSE LastSlash(SubSeq(path, 1, Len(path) - 1))

\* os.FileInfo.Name() of a stat of path
Basename(path) == SubSeq(path, LastSlash(path) + 1, Len(path))

\* the loop of Classify over the captured rules: the index of the rule it
\* breaks at, 0 when it runs to the end
RECURSIVE FirstMatchFrom(_, _, _, _)
FirstMatchFrom(snap, i, name, ext) ==
    IF i > Len(snap) THEN 0
    ELSE IF matches(snap[i], name, ext) THEN i
    ELSE FirstMatchFrom(snap, i + 1, name, ext)

FirstMatch(snap, name, ext) == FirstMatchFrom(snap, 1, name, ext)

-----------------------------------------------------------------------------
(* Table files and the file repository *)

FileIdsInUse == {f.id : f \in files}

\* database.GenerateID for a file: a UUID no row carries
GenerateFileID ==
    GeneratedFileIds[CHOOSE i \in 1..Len(GeneratedFileIds) :
        /\ GeneratedFileIds[i] \notin FileIdsInUse
        /\ \A j \in 1..(i - 1) : GeneratedFileIds[j] \in FileIdsInUse]

\* FOREIGN KEY (project_id) REFERENCES projects(id)
FileForeignKeyOk(pid) == pid.valid => pid.str \in ProjectIdsInUse

\* fileRepo.GetByPath: the row, or none
GetByPath(path) == {f \in files : f.path = path}

\* an upsert written as INSERT OR REPLACE: the row of the path is dropped
\* and a new one inserted
UpsertReplace(f) ==
    LET id == IF f.id = "" THEN GenerateFileID ELSE f.id
        kept == {q \in files : q.path # f.path}
    IN IF ~FileForeignKeyOk(f.project_id) \/ id \in {q.id : q \in kept}
       THEN [err |-> "storage", files |-> files]
       ELSE [err |-> "nil",
             files |-> kept \cup
                 {[id |-> id, path |-> f.path, name |-> f.name,
                   ext |-> f.ext, size |-> f.size, mtime |-> f.mtime,
                   project_id |-> f.project_id,
                   created_at |-> CurrentTimestamp,
                   updated_at |-> CurrentTimestamp]}]

\* fileRepo.Upsert: [err, files]
Upsert(f) ==
    LET id == IF f.id = "" THEN GenerateFileID ELSE f.id
        hit == GetByPath(f.path)
    IN IF ~FileForeignKeyOk(f.project_id)
       THEN [err |-> "storage", files |-> files]
       ELSE IF hit # {}
       THEN \* ON CONFLICT(path) DO UPDATE
            LET old == CHOOSE q \in hit : TRUE
                row == [old EXCEPT !.name = f.name,
                                   !.ext = f.ext,
                                   !.size = f.size,
                                   !.mtime = f.mtime,
                                   !.project_id = f.project_id,
                                   !.updated_at = CurrentTimestamp]
            IN [err |-> "nil",
                files |-> (files \ {old}) \cup {FileTrigger(row)}]
       ELSE IF id \in FileIdsInUse
       THEN [err |-> "storage", files |-> files]
       ELSE [err |-> "nil",
             files |-> files \cup
                 {[id |-> id, path |-> f.path, name |-> f.name,
                   ext |-> f.ext, size |-> f.size, mtime |-> f.mtime,
                   project_id |-> f.project_id,
                   created_at |-> CurrentTimestamp,
                   updated_at |-> CurrentTimestamp]}]

-----------------------------------------------------------------------------
(* The classifier's memory *)

Addrs == 1..NAddrs

NilSlice == [ptr |-> 0, len |-> 0]

IdleCl ==
    [pc |-> "idle", path |-> <<>>, name |-> <<>>, size |-> 0, mtime |-> 0,
     snap |-> NilSlice, seen |-> <<>>, i |-> 0, projectID |-> "",
     matchedRule |-> ""]

IdleRl == [pc |-> "idle", listed |-> <<>>, k |-> 0, target |-> 0]

\* the zero value of CompiledRule
ZeroCompiledRule ==
    [RuleID |-> "", ProjectID |-> "", Kind |-> "", CaseSensitive |-> FALSE,
     Texts |-> <<>>, Regexp |-> NilRegexp, Priority |-> 0]

\* element i of the slice sl in heap h: what the array holds there
At(h, sl, i) ==
    IF i <= Len(h[sl.ptr]) THEN h[sl.ptr][i] ELSE ZeroCompiledRule

\* the elements a slice header denotes in heap h
Elems(h, sl) == [i \in 1..sl.len |-> At(h, sl, i)]

\* the addresses some goroutine or the classifier still refers to
Roots(cs, clv, rlv) ==
    ({cs.ptr} \cup {clv[w].snap.ptr : w \in DOMAIN clv}
              \cup {rlv[t].target : t \in DOMAIN rlv}) \ {0}

\* a reload that builds the new set in the array of the published one
AllocInPlace ==
    IF cset.ptr # 0 THEN cset.ptr
    ELSE CHOOSE a \in Addrs \ Roots(cset, cl, rl) :
             \A b \in Addrs \ Roots(cset, cl, rl) : a <= b

\* make([]CompiledRule, 0, n): an array no one refers to
CanAlloc == Addrs \ Roots(cset, cl, rl) # {}
Alloc == CHOOSE a \in Addrs \ Roots(cset, cl, rl) :
             \A b \in Addrs \ Roots(cset, cl, rl) : a <= b

\* garbage collection: an array no one refers to is gone
Collect(h, roots) == [a \in Addrs |-> IF a \in roots THEN h[a] ELSE <<>>]

\* Classifier.Reload run to its end without interruption, on tables rs and
\* ps: the memories it can leave, [heap, cset].  The array it replaces is
\* garbage when it returns; addresses being names only, the new array takes
\* the least address free at that moment.
ReloadOutcomes(rs, ps) ==
    LET held == Roots(NilSlice, cl, rl)
        a == CHOOSE x \in Addrs \ held : \A y \in Addrs \ held : x <= y
    IN {[heap |-> Collect([heap EXCEPT ![a] = sorted], held \cup {a}),
         cset |-> [ptr |-> a, len |-> Len(sorted)]] :
           sorted \in UNION {SortSlice(CompileAll(listed)) :
                                listed \in ListActive(rs, ps)}}

\* Classifier.Classify run to its end without interruption:
\* [err, files, rule, project]
ClassifyOutcome(absPath, meta) ==
    LET name == meta.name
        ext == ExtOf(name)
        captured == Elems(heap, cset)
        i == FirstMatch(captured, name, ext)
        projectID == IF i = 0 THEN "" ELSE captured[i].ProjectID
        matchedRule == IF i = 0 THEN "" ELSE captured[i].RuleID
        owner == IF projectID # "" THEN projectID ELSE incomingProjectID
        f == [id |-> "", path |-> absPath, name |-> name, ext |-> ext,
              size |-> meta.size, mtime |-> meta.mtime,
              project_id |-> [valid |-> TRUE, str |-> owner]]
        u == Upsert(f)
    IN [err |-> u.err, files |-> u.files, rule |-> matchedRule,
        project |-> owner]

\* os.Stat of a regular file at path
StatOf(path, size, mtime) ==
    [name |-> Basename(path), size |-> size, mtime |-> mtime]

-----------------------------------------------------------------------------
(* The database handle of package db *)

\* db is [cur, n, open]: the handle the package variable refers to (0 for
\* nil), how many handles sql.Open has returned so far, and the handles
\* not closed yet
NoDatabase == [cur |-> 0, n |-> 0, open |-> {}]

\* what the environment can do to one InitializeDatabase call: nothing, or
\* fail getAppDataDirectory, sql.Open, Ping or createTables
InitFaults == {"none", "dir", "open", "ping", "tables"}

\* (*sql.DB).Close on the handle h
CloseHandle(d, h) == [d EXCEPT !.open = @ \ {h}]

\* CloseDatabase that returns a failed Close before clearing the reference
CloseDatabaseKeepsOnError(d, closeErr) ==
    IF d.cur # 0
    THEN IF closeErr
         THEN [err |-> "close", db |-> CloseHandle(d, d.cur)]
         ELSE [err |-> "nil", db |-> [CloseHandle(d, d.cur) EXCEPT !.cur = 0]]
    ELSE [err |-> "nil", db |-> d]

\* CloseDatabase: [err, db]; closeErr says whether Close reports an error
CloseDatabaseOutcome(d, closeErr) ==
    IF d.cur # 0
    THEN [err |-> IF closeErr THEN "close" ELSE "nil",
          db |-> [CloseHandle(d, d.cur) EXCEPT !.cur = 0]]
    ELSE [err |-> "nil", db |-> d]

\* InitializeDatabase: [err, db]
InitializeDatabaseOutcome(d, fault) ==
    LET cleared == IF d.cur # 0
                   THEN [CloseHandle(d, d.cur) EXCEPT !.cur = 0]
                   ELSE d
        h == cleared.n + 1
        opened == [cur |-> h, n |-> h, open |-> cleared.open \cup {h}]
    IN IF fault = "dir" THEN [err |-> "dir", db |-> cleared]
       ELSE IF fault = "open" THEN [err |-> "open", db |-> cleared]
       ELSE IF fault = "ping" THEN [err |-> "ping", db |-> opened]
       ELSE IF fault = "tables" THEN [err |-> "tables", db |-> opened]
       ELSE [err |-> "nil", db |-> opened]

\* GetDB
GetDB(d) == d.cur

-----------------------------------------------------------------------------
(* The watcher of the downloads folder *)

\* the paths of the model
PathAP == <<"/", "a", ".", "P">>
PathB == <<"/", "b">>
PathA == <<"/", "A">>

\* the entries a folder can hold, in the lexical order of a directory
\* listing
WalkOrder == <<PathA, PathAP, PathB>>
FolderPaths == Range(WalkOrder)

\* the entries that come and go while the folder is watched
WatchedPaths == {PathAP, PathA}

\* what os.Stat finds at a path: nothing, a regular file, a directory, or
\* an entry it may not look at
FsKinds == {"none", "file", "dir", "denied"}

\* fsnotify.Op, as the set of the bits that are set
NoEvent == [name |-> <<>>, op |-> {}]

\* wt is the Watcher value: whether NewWatcher returned it, the state of the
\* fsnotify subscription, whether its context is cancelled, where the
\* goroutine of Start is, the event it is handling, the events fsnotify has
\* queued for it, and whether it has logged an error
NoWatcher ==
    [made |-> FALSE, sub |-> "none", cancelled |-> FALSE, loop |-> "none",
     cur |-> NoEvent, events |-> <<>>, logged |-> FALSE]

\* NewWatcher on an existing folder
NewWatcherOutcome == [NoWatcher EXCEPT !.made = TRUE, !.sub = "open"]

\* Watcher.Start: launches the goroutine
StartOutcome(w) == [w EXCEPT !.loop = "idle"]

\* Watcher.Stop
StopOutcome(w) == [w EXCEPT !.cancelled = TRUE]

\* the deferred watcher.Close() of the goroutine as it returns
LoopReturns(w) ==
    [w EXCEPT !.loop = "exited", !.sub = "closed", !.cur = NoEvent,
              !.events = <<>>]

\* a loop that looks at rename events only
HandlesRenameOnly(op) == "Rename" \in op

\* a loop that looks at create events only
HandlesCreateOnly(op) == "Create" \in op

\* the test on the event's mask
Handles(op) == "Create" \in op \/ "Rename" \in op

\* a loop that returns when an event's stat or classify fails
LoopGivesUp(w, silent) ==
    [LoopReturns(w) EXCEPT !.logged = IF silent THEN @ ELSE TRUE]

\* stat or classify failed: log it and wait for the next event
LoopAfterError(w, silent) ==
    [w EXCEPT !.loop = "idle", !.cur = NoEvent,
              !.logged = IF silent THEN @ ELSE TRUE]

-----------------------------------------------------------------------------
(* The transaction helpers *)

\* txn is the trace of the last helper call: whether BeginTx gave a
\* transaction, how the closure ended, the calls made on the transaction, in
\* order, what fmt.Printf wrote, and how the helper ended
NoTx ==
    [helper |-> "", began |-> FALSE, fn |-> [kind |-> "none", val |-> ""],
     calls |-> <<>>, printed |-> FALSE,
     out |-> [kind |-> "none", msg |-> "", text |-> "", wraps |-> ""]]

\* a returned error: fmt.Errorf(msg, ...) with text formatted by %v and
\* wraps wrapped by %w
TxError(msg, text, wraps) ==
    [kind |-> "error", msg |-> msg, text |-> text, wraps |-> wraps]

TxNil == [kind |-> "nil", msg |-> "", text |-> "", wraps |-> ""]

\* a panic leaving the helper with value p
TxPanic(p) == [kind |-> "panic", msg |-> "", text |-> "", wraps |-> p]

\* a deferred function that raises the panic again without a rollback
RecoveredNoRollback(t, fn, rollbackErr) ==
    [t EXCEPT !.began = TRUE, !.fn = fn, !.out = TxPanic(fn.val)]

\* the deferred function when the closure panicked: recover, Rollback, a
\* line printed when Rollback fails, and panic(p) again
Recovered(t, fn, rollbackErr) ==
    [t EXCEPT !.began = TRUE, !.fn = fn,
              !.calls = <<"rollback">>,
              !.printed = rollbackErr # "nil",
              !.out = TxPanic(fn.val)]

\* WithTransactionContext and WithTransactionOptions, which differ in the
\* options handed to BeginTx only: [txn, projects].  staged is table
\* projects as the closure left it inside the transaction, fn how the
\* closure ended; beginErr, rollbackErr and commitErr are what BeginTx,
\* Rollback and Commit return.
WithTransactionOutcome(helper, staged, fn, beginErr, rollbackErr, commitErr) ==
    LET t == [NoTx EXCEPT !.helper = helper] IN
    IF beginErr # "nil"
    THEN [txn |-> [t EXCEPT !.out = TxError("failed to begin transaction",
                                             "", beginErr)],
          projects |-> projects]
    ELSE IF fn.kind = "panic"
    THEN [txn |-> Recovered(t, fn, rollbackErr), projects |-> projects]
    ELSE IF fn.kind = "error"
    THEN [txn |-> [t EXCEPT !.began = TRUE, !.fn = fn,
                            !.calls = <<"rollback">>,
                            !.out = IF rollbackErr # "nil"
                                    THEN TxError("transaction failed, rollback failed",
                                                 fn.val, rollbackErr)
                                    ELSE TxError("transaction failed",
                                                 fn.val, fn.val)],
          projects |-> projects]
    ELSE IF commitErr # "nil"
    THEN [txn |-> [t EXCEPT !.began = TRUE, !.fn = fn, !.calls = <<"commit">>,
                            !.out = TxError("failed to commit transaction",
                                            "", commitErr)],
          projects |-> projects]
    ELSE [txn |-> [t EXCEPT !.began = TRUE, !.fn = fn, !.calls = <<"commit">>,
                            !.out = TxNil],
          projects |-> staged]

-----------------------------------------------------------------------------
(* App.ImportFolder *)

\* imp is the walk in progress: the index in the listing of the entry the
\* callback is called for next (0 when no walk is running), what the walk
\* finds at each entry, and the paths it has passed to Classify
NoWalk ==
    [pos |-> 0, entries |-> [i \in 1..Len(WalkOrder) |-> "none"],
     seen |-> {}]

\* what filepath.WalkDir meets at an entry: a directory it cannot read
\* (unreadable), an entry whose d.Info() fails (gone, or no stat allowed),
\* a directory, a regular file, or nothing
Met(path, unreadable, gone) ==
    IF fs[path] = "dir" /\ path \in unreadable THEN "unreadable"
    ELSE IF fs[path] = "file" /\ path \in gone THEN "noinfo"
    ELSE IF fs[path] = "denied" THEN "noinfo"
    ELSE fs[path]

\* the callback called with an error: it returns the error, which ends the
\* walk and is what WalkDir returns
WalkError(w) == [err |-> "access", imp |-> [w EXCEPT !.pos = 0]]

-----------------------------------------------------------------------------
(* Actions: startup, the lifecycle facade, classification *)

IncomingProjectName == <<"I", "n", "c", "o", "m", "i", "n", "g">>

\* what a call returned: its error, and the project id, matched rule and
\* path it was about
Ret(op, err, arg) ==
    [op |-> op, err |-> err, arg |-> arg, rule |-> "", path |-> <<>>]

\* App.startup on a catalog file that may hold rows of an earlier run:
\* InitializeDatabase, LoadIncomingProject, Reload, then NewWatcher and Start
Startup ==
    /\ phase = "new"
    /\ db.n < MaxHandles
    /\ LET found == GetByName(IncomingProjectName)
           c == ProjectCreate([id |-> "", name |-> IncomingProjectName,
                               description |-> <<>>, is_active |-> TRUE])
           ps == IF found = {} THEN c.projects ELSE projects
       IN /\ found = {} => c.err = "nil"
          /\ projects' = ps
          /\ nextPid' = IF found = {} THEN nextPid + c.gen ELSE nextPid
          /\ incomingProjectID' =
                 IF found = {} THEN c.id ELSE (CHOOSE q \in found : TRUE).id
          /\ \E o \in ReloadOutcomes(rules, ps) :
                 heap' = o.heap /\ cset' = o.cset
    /\ db' = InitializeDatabaseOutcome(db, "none").db
    /\ wt' = StartOutcome(NewWatcherOutcome)
    /\ phase' = "running"
    /\ ret' = Ret("startup", "nil", "")
    /\ UNCHANGED <<rules, files, now, nextRid, cl, rl, fs, imp, txn>>

\* App.CreateProject
CreateProject(p) ==
    /\ phase = "running"
    /\ LET c == ProjectCreate(p) IN
       /\ projects' = c.projects
       /\ nextPid' = nextPid + c.gen
       /\ ret' = Ret("CreateProject", c.err, p.id)
    /\ UNCHANGED <<phase, rules, files, heap, cset, incomingProjectID, now,
                   nextRid, cl, rl, db, fs, wt, imp, txn>>

\* App.UpdateProject
UpdateProject(p) ==
    /\ phase = "running"
    /\ LET u == ProjectUpdate(p) IN
       /\ projects' = u.projects
       /\ ret' = Ret("UpdateProject", u.err, p.id)
    /\ UNCHANGED <<phase, rules, files, heap, cset, incomingProjectID, now,
                   nextPid, nextRid, cl, rl, db, fs, wt, imp, txn>>

\* App.DeleteProject
DeleteProject(id) ==
    /\ phase = "running"
    /\ LET d == ProjectDelete(id) IN
       /\ projects' = d.projects
       /\ rules' = d.rules
       /\ files' = d.files
       /\ ret' = Ret("DeleteProject", d.err, id)
    /\ UNCHANGED <<phase, heap, cset, incomingProjectID, now, nextPid,
                   nextRid, cl, rl, db, fs, wt, imp, txn>>

\* a facade that returns after the repository call without reloading
ThenNoReload(op, err, arg, rs) ==
    /\ ret' = Ret(op, err, arg)
    /\ UNCHANGED <<heap, cset>>

\* a facade that reloads whatever the repository returned
ThenReloadAlways(op, err, arg, rs) ==
    /\ ret' = Ret(op, err, arg)
    /\ \E o \in ReloadOutcomes(rs, projects) :
           heap' = o.heap /\ cset' = o.cset

\* the tail of the three rule methods of App: return the repository's
\* error, or else what Reload returns
ThenReload(op, err, arg, rs) ==
    IF err # "nil"
    THEN /\ ret' = Ret(op, err, arg)
         /\ UNCHANGED <<heap, cset>>
    ELSE /\ ret' = Ret(op, "nil", arg)
         /\ \E o \in ReloadOutcomes(rs, projects) :
                heap' = o.heap /\ cset' = o.cset

\* App.CreateRule
CreateRule(r) ==
    /\ phase = "running"
    /\ LET c == RuleCreate(r) IN
       /\ rules' = c.rules
       /\ nextRid' = nextRid + c.gen
       /\ ThenReload("CreateRule", c.err, r.project_id, c.rules)
    /\ UNCHANGED <<phase, projects, files, incomingProjectID, now, nextPid,
                   cl, rl, db, fs, wt, imp, txn>>

\* App.UpdateRule
UpdateRule(r) ==
    /\ phase = "running"
    /\ LET u == RuleUpdate(r) IN
       /\ rules' = u.rules
       /\ ThenReload("UpdateRule", u.err, r.project_id, u.rules)
    /\ UNCHANGED <<phase, projects, files, incomingProjectID, now, nextPid,
                   nextRid, cl, rl, db, fs, wt, imp, txn>>

\* App.DeleteRule
DeleteRule(id) ==
    /\ phase = "running"
    /\ LET d == RuleDelete(id) IN
       /\ rules' = d.rules
       /\ ThenReload("DeleteRule", d.err, "", d.rules)
    /\ UNCHANGED <<phase, projects, files, incomingProjectID, now, nextPid,
                   nextRid, cl, rl, db, fs, wt, imp, txn>>

\* a Reload that drops the set when listing fails
ReloadFailedClears ==
    [heap |-> Collect(heap, Roots(NilSlice, cl, rl)), cset |-> NilSlice]

\* Classifier.Reload when ListActive returns an error: it returns the error
\* before it touches the set; the memory it leaves
ReloadFailed == [heap |-> heap, cset |-> cset]

\* the tail of the three rule methods of App when the catalog cannot be
\* listed: the repository's error, or else the error of Reload
ThenReloadFails(op, err, arg) ==
    /\ ret' = Ret(op, IF err # "nil" THEN err ELSE "list_failed", arg)
    /\ heap' = IF err # "nil" THEN heap ELSE ReloadFailed.heap
    /\ cset' = IF err # "nil" THEN cset ELSE ReloadFailed.cset

\* App.CreateRule, the storage failing after the insert
CreateRuleListFails(r) ==
    /\ phase = "running"
    /\ LET c == RuleCreate(r) IN
       /\ rules' = c.rules
       /\ nextRid' = nextRid + c.gen
       /\ ThenReloadFails("CreateRule", c.err, r.project_id)
    /\ UNCHANGED <<phase, projects, files, incomingProjectID, now, nextPid,
                   cl, rl, db, fs, wt, imp, txn>>

\* App.UpdateRule, the storage failing after the update
UpdateRuleListFails(r) ==
    /\ phase = "running"
    /\ LET u == RuleUpdate(r) IN
       /\ rules' = u.rules
       /\ ThenReloadFails("UpdateRule", u.err, r.project_id)
    /\ UNCHANGED <<phase, projects, files, incomingProjectID, now, nextPid,
                   nextRid, cl, rl, db, fs, wt, imp, txn>>

\* App.DeleteRule, the storage failing after the delete
DeleteRuleListFails(id) ==
    /\ phase = "running"
    /\ LET d == RuleDelete(id) IN
       /\ rules' = d.rules
       /\ ThenReloadFails("DeleteRule", d.err, "")
    /\ UNCHANGED <<phase, projects, files, incomingProjectID, now, nextPid,
                   nextRid, cl, rl, db, fs, wt, imp, txn>>

\* Classifier.Reload called on its own
Reload ==
    /\ phase = "running"
    /\ \E o \in ReloadOutcomes(rules, projects) :
           heap' = o.heap /\ cset' = o.cset
    /\ ret' = Ret("Reload", "nil", "")
    /\ UNCHANGED <<phase, projects, rules, files, incomingProjectID, now,
                   nextPid, nextRid, cl, rl, db, fs, wt, imp, txn>>

\* Classifier.Classify on a regular file, as the watcher and ImportFolder
\* call it
Classify(path, size, mtime) ==
    /\ phase = "running"
    /\ LET c == ClassifyOutcome(path, StatOf(path, size, mtime)) IN
       /\ files' = c.files
       /\ ret' = [op |-> "Classify", err |-> c.err, arg |-> c.project,
                  rule |-> c.rule, path |-> path]
    /\ UNCHANGED <<phase, projects, rules, heap, cset, incomingProjectID, now,
                   nextPid, nextRid, cl, rl, db, fs, wt, imp, txn>>

\* a direct call of fileRepo.Upsert
UpsertFile(f) ==
    /\ phase = "running"
    /\ LET u == Upsert(f) IN
       /\ files' = u.files
       /\ ret' = [op |-> "Upsert", err |-> u.err, arg |-> f.project_id.str,
                  rule |-> "", path |-> f.path]
    /\ UNCHANGED <<phase, projects, rules, heap, cset, incomingProjectID, now,
                   nextPid, nextRid, cl, rl, db, fs, wt, imp, txn>>

\* Classify, first part: stat the file, then copy the slice header under
\* the read lock.  seen records the elements at that moment.
ClassifyCapture(w, path, size, mtime) ==
    /\ phase = "running"
    /\ cl[w].pc = "idle"
    /\ LET meta == StatOf(path, size, mtime) IN
       cl' = [cl EXCEPT ![w] =
                 [pc |-> IF cset.len = 0 THEN "upsert" ELSE "loop",
                  path |-> path, name |-> meta.name, size |-> meta.size,
                  mtime |-> meta.mtime, snap |-> cset,
                  seen |-> Elems(heap, cset), i |-> 1, projectID |-> "",
                  matchedRule |-> ""]]
    /\ UNCHANGED <<phase, projects, rules, files, heap, cset,
                   incomingProjectID, now, nextPid, nextRid, ret, rl, db, fs,
                   wt, imp, txn>>

\* a loop without the break: a later matching rule replaces an earlier one
ClassifyIterNoBreak(w) ==
    /\ cl[w].pc = "loop"
    /\ LET c == cl[w]
           r == At(heap, c.snap, c.i)
           d == IF matches(r, c.name, ExtOf(c.name))
                THEN [c EXCEPT !.projectID = r.ProjectID,
                               !.matchedRule = r.RuleID]
                ELSE c
       IN cl' = [cl EXCEPT ![w] =
                 [d EXCEPT !.i = c.i + 1,
                           !.pc = IF c.i = c.snap.len THEN "upsert"
                                  ELSE "loop"]]
    /\ UNCHANGED <<phase, projects, rules, files, heap, cset,
                   incomingProjectID, now, nextPid, nextRid, ret, rl, db, fs,
                   wt, imp, txn>>

\* Classify, one turn of the loop over the captured rules
ClassifyIter(w) ==
    /\ cl[w].pc = "loop"
    /\ LET c == cl[w]
           r == At(heap, c.snap, c.i)
       IN cl' = [cl EXCEPT ![w] =
                 IF matches(r, c.name, ExtOf(c.name))
                 THEN [c EXCEPT !.projectID = r.ProjectID,
                                !.matchedRule = r.RuleID,
                                !.pc = "upsert"]
                 ELSE [c EXCEPT !.i = c.i + 1,
                                !.pc = IF c.i = c.snap.len THEN "upsert"
                                       ELSE "loop"]]
    /\ UNCHANGED <<phase, projects, rules, files, heap, cset,
                   incomingProjectID, now, nextPid, nextRid, ret, rl, db, fs,
                   wt, imp, txn>>

\* Classify, last part: the Incoming fallback and the upsert
ClassifyUpsert(w) ==
    /\ cl[w].pc = "upsert"
    /\ LET c == cl[w]
           owner == IF c.projectID # "" THEN c.projectID
                    ELSE incomingProjectID
           u == Upsert([id |-> "", path |-> c.path, name |-> c.name,
                        ext |-> ExtOf(c.name), size |-> c.size,
                        mtime |-> c.mtime,
                        project_id |-> [valid |-> TRUE, str |-> owner]])
       IN /\ files' = u.files
          /\ ret' = [op |-> "Classify", err |-> u.err, arg |-> owner,
                     rule |-> c.matchedRule, path |-> c.path]
    /\ cl' = [cl EXCEPT ![w] = IdleCl]
    /\ heap' = Collect(heap, Roots(cset, cl', rl))
    /\ UNCHANGED <<phase, projects, rules, cset, incomingProjectID, now,
                   nextPid, nextRid, rl, db, fs, wt, imp, txn>>

\* Reload, first part: list the active rules, make the empty slice
ReloadList(t) ==
    /\ phase = "running"
    /\ rl[t].pc = "idle"
    /\ CanAlloc
    /\ \E listed \in ListActive(rules, projects) :
           rl' = [rl EXCEPT ![t] =
                     [pc |-> "compile", listed |-> listed, k |-> 1,
                      target |-> Alloc]]
    /\ heap' = [heap EXCEPT ![Alloc] = <<>>]
    /\ UNCHANGED <<phase, projects, rules, files, cset, incomingProjectID,
                   now, nextPid, nextRid, ret, cl, db, fs, wt, imp, txn>>

\* Reload, one turn of the loop: compile a rule, append it or skip it
ReloadCompile(t) ==
    /\ rl[t].pc = "compile"
    /\ rl[t].k <= Len(rl[t].listed)
    /\ LET c == compileRule(rl[t].listed[rl[t].k]) IN
       heap' = IF c.err THEN heap
               ELSE [heap EXCEPT ![rl[t].target] = Append(@, c.cr)]
    /\ rl' = [rl EXCEPT ![t].k = @ + 1]
    /\ UNCHANGED <<phase, projects, rules, files, cset, incomingProjectID,
                   now, nextPid, nextRid, ret, cl, db, fs, wt, imp, txn>>

\* Reload, last part: sort the slice, then store it under the write lock
ReloadPublish(t) ==
    /\ rl[t].pc = "compile"
    /\ rl[t].k > Len(rl[t].listed)
    /\ \E sorted \in SortSlice(heap[rl[t].target]) :
           /\ cset' = [ptr |-> rl[t].target, len |-> Len(sorted)]
           /\ rl' = [rl EXCEPT ![t] = IdleRl]
           /\ heap' = Collect([heap EXCEPT ![rl[t].target] = sorted],
                              Roots(cset', cl, rl'))
    /\ ret' = Ret("Reload", "nil", "")
    /\ UNCHANGED <<phase, projects, rules, files, incomingProjectID, now,
                   nextPid, nextRid, cl, db, fs, wt, imp, txn>>

\* time passes
Tick ==
    /\ now < MaxClock
    /\ now' = now + 1
    /\ UNCHANGED <<phase, projects, rules, files, heap, cset,
                   incomingProjectID, nextPid, nextRid, ret, cl, rl, db, fs,
                   wt, imp, txn>>

-----------------------------------------------------------------------------
(* Actions: the database handle, the watched folder, the watcher *)

\* InitializeDatabase called directly
InitializeDatabase(fault) ==
    /\ db.n < MaxHandles
    /\ LET o == InitializeDatabaseOutcome(db, fault) IN
       /\ db' = o.db
       /\ ret' = Ret("InitializeDatabase", o.err, "")
    /\ UNCHANGED <<phase, projects, rules, files, heap, cset,
                   incomingProjectID, now, nextPid, nextRid, cl, rl, fs, wt,
                   imp, txn>>

\* CloseDatabase called directly
CloseDatabase(closeErr) ==
    /\ LET o == CloseDatabaseOutcome(db, closeErr) IN
       /\ db' = o.db
       /\ ret' = Ret("CloseDatabase", o.err, "")
    /\ UNCHANGED <<phase, projects, rules, files, heap, cset,
                   incomingProjectID, now, nextPid, nextRid, cl, rl, fs, wt,
                   imp, txn>>

\* fsnotify queues events while the subscription is open
Notify(w, evs) ==
    IF w.sub = "open" THEN [w EXCEPT !.events = @ \o evs] ELSE w

Event(path, bit) == [name |-> path, op |-> {bit}]

\* a file is written or moved into the folder, or a directory is made in it
FsCreate(path, kind) ==
    /\ fs[path] = "none"
    /\ Len(wt.events) < MaxEvents
    /\ fs' = [fs EXCEPT ![path] = kind]
    /\ wt' = Notify(wt, <<Event(path, "Create")>>)
    /\ UNCHANGED <<phase, projects, rules, files, heap, cset,
                   incomingProjectID, now, nextPid, nextRid, ret, cl, rl, db,
                   imp, txn>>

\* an entry is removed
FsRemove(path) ==
    /\ fs[path] # "none"
    /\ Len(wt.events) < MaxEvents
    /\ fs' = [fs EXCEPT ![path] = "none"]
    /\ wt' = Notify(wt, <<Event(path, "Remove")>>)
    /\ UNCHANGED <<phase, projects, rules, files, heap, cset,
                   incomingProjectID, now, nextPid, nextRid, ret, cl, rl, db,
                   imp, txn>>

\* an entry loses the permissions a stat of it needs
FsDeny(path) ==
    /\ fs[path] \in {"file", "dir"}
    /\ Len(wt.events) < MaxEvents
    /\ fs' = [fs EXCEPT ![path] = "denied"]
    /\ wt' = Notify(wt, <<Event(path, "Chmod")>>)
    /\ UNCHANGED <<phase, projects, rules, files, heap, cset,
                   incomingProjectID, now, nextPid, nextRid, ret, cl, rl, db,
                   imp, txn>>

\* an entry is renamed inside the folder: fsnotify reports a rename of the
\* old name and a create of the new one
FsRename(old, new) ==
    /\ fs[old] # "none"
    /\ fs[new] = "none"
    /\ Len(wt.events) + 2 <= MaxEvents
    /\ fs' = [fs EXCEPT ![old] = "none", ![new] = fs[old]]
    /\ wt' = Notify(wt, <<Event(old, "Rename"), Event(new, "Create")>>)
    /\ UNCHANGED <<phase, projects, rules, files, heap, cset,
                   incomingProjectID, now, nextPid, nextRid, ret, cl, rl, db,
                   imp, txn>>

\* NewWatcher called directly
NewWatcher ==
    /\ ~wt.made
    /\ wt' = NewWatcherOutcome
    /\ ret' = Ret("NewWatcher", "nil", "")
    /\ UNCHANGED <<phase, projects, rules, files, heap, cset,
                   incomingProjectID, now, nextPid, nextRid, cl, rl, db, fs,
                   imp, txn>>

\* Watcher.Start
Start ==
    /\ wt.made
    /\ wt.loop = "none"
    /\ wt' = StartOutcome(wt)
    /\ ret' = Ret("Start", "nil", "")
    /\ UNCHANGED <<phase, projects, rules, files, heap, cset,
                   incomingProjectID, now, nextPid, nextRid, cl, rl, db, fs,
                   imp, txn>>

\* Watcher.Stop, also as App.shutdown calls it
Stop ==
    /\ wt.made
    /\ wt' = StopOutcome(wt)
    /\ ret' = Ret("Stop", "nil", "")
    /\ UNCHANGED <<phase, projects, rules, files, heap, cset,
                   incomingProjectID, now, nextPid, nextRid, cl, rl, db, fs,
                   imp, txn>>

\* the select of the loop takes an event; with the context cancelled too it
\* may take either
LoopReceive ==
    /\ wt.loop = "idle"
    /\ wt.events # <<>>
    /\ wt' = [wt EXCEPT !.loop = "handling", !.cur = Head(wt.events),
                        !.events = Tail(wt.events)]
    /\ UNCHANGED <<phase, projects, rules, files, heap, cset,
                   incomingProjectID, now, nextPid, nextRid, ret, cl, rl, db,
                   fs, imp, txn>>

\* a Classify whose upsert does not look at the context
ClassifyIgnoresCtx(cancelled, absPath, meta) ==
    ClassifyOutcome(absPath, meta)

\* Classify under the watcher's context: a cancelled context fails the
\* upsert before it reaches the catalog
ClassifyCtx(cancelled, absPath, meta) ==
    IF cancelled
    THEN [err |-> "canceled", files |-> files, rule |-> "", project |-> ""]
    ELSE ClassifyOutcome(absPath, meta)

\* what the loop did with an event
Handled(what, err, path) ==
    [op |-> what, err |-> err, arg |-> "", rule |-> "", path |-> path]

\* the body of the loop for the event it took
LoopHandle ==
    /\ wt.loop = "handling"
    /\ LET e == wt.cur
           st == fs[e.name]
           c == ClassifyCtx(wt.cancelled, e.name, StatOf(e.name, 1, 0))
       IN IF ~Handles(e.op)
          THEN /\ wt' = [wt EXCEPT !.loop = "idle", !.cur = NoEvent]
               /\ ret' = Handled("Ignore", "nil", e.name)
               /\ files' = files
          ELSE IF st = "none"
          THEN /\ wt' = LoopAfterError(wt, TRUE)
               /\ ret' = Handled("Stat", "not_exist", e.name)
               /\ files' = files
          ELSE IF st = "denied"
          THEN /\ wt' = LoopAfterError(wt, FALSE)
               /\ ret' = Handled("Stat", "stat", e.name)
               /\ files' = files
          ELSE IF st = "dir"
          THEN /\ wt' = [wt EXCEPT !.loop = "idle", !.cur = NoEvent]
               /\ ret' = Handled("Ignore", "nil", e.name)
               /\ files' = files
          ELSE /\ wt' = IF c.err # "nil" THEN LoopAfterError(wt, FALSE)
                        ELSE [wt EXCEPT !.loop = "idle", !.cur = NoEvent]
               /\ ret' = [op |-> "Classify", err |-> c.err,
                          arg |-> c.project, rule |-> c.rule,
                          path |-> e.name]
               /\ files' = c.files
    /\ UNCHANGED <<phase, projects, rules, heap, cset, incomingProjectID, now,
                   nextPid, nextRid, cl, rl, db, fs, imp, txn>>

\* the select of the loop takes the cancellation and the goroutine returns
LoopExit ==
    /\ wt.loop = "idle"
    /\ wt.cancelled
    /\ wt' = LoopReturns(wt)
    /\ UNCHANGED <<phase, projects, rules, files, heap, cset,
                   incomingProjectID, now, nextPid, nextRid, ret, cl, rl, db,
                   fs, imp, txn>>

-----------------------------------------------------------------------------
(* Actions: App.ImportFolder *)

\* ImportFolder is called: WalkDir lists the folder
ImportStart(unreadable, gone) ==
    /\ phase = "running"
    /\ imp.pos = 0
    /\ imp' = [pos |-> 1,
               entries |-> [i \in 1..Len(WalkOrder) |->
                                Met(WalkOrder[i], unreadable, gone)],
               seen |-> {}]
    /\ UNCHANGED <<phase, projects, rules, files, heap, cset,
                   incomingProjectID, now, nextPid, nextRid, ret, cl, rl, db,
                   fs, wt, txn>>

\* the callback for the next entry of the listing
ImportVisit ==
    /\ imp.pos \in 1..Len(WalkOrder)
    /\ LET path == WalkOrder[imp.pos]
           met == imp.entries[imp.pos]
           c == ClassifyOutcome(path, StatOf(path, 1, 0))
       IN IF met = "unreadable"
          THEN /\ imp' = WalkError(imp).imp
               /\ ret' = Handled("ImportFolder", WalkError(imp).err, path)
               /\ files' = files
          ELSE IF met = "file"
          THEN /\ imp' = [imp EXCEPT !.pos = @ + 1, !.seen = @ \cup {path}]
               /\ ret' = [op |-> "Classify", err |-> c.err,
                          arg |-> c.project, rule |-> c.rule, path |-> path]
               /\ files' = c.files
          ELSE /\ imp' = [imp EXCEPT !.pos = @ + 1]
               /\ ret' = ret
               /\ files' = files
    /\ UNCHANGED <<phase, projects, rules, heap, cset, incomingProjectID, now,
                   nextPid, nextRid, cl, rl, db, fs, wt, txn>>

\* WalkDir has called the callback for every entry: ImportFolder returns nil
ImportReturn ==
    /\ imp.pos = Len(WalkOrder) + 1
    /\ imp' = [imp EXCEPT !.pos = 0]
    /\ ret' = Handled("ImportFolder", "nil", <<>>)
    /\ UNCHANGED <<phase, projects, rules, files, heap, cset,
                   incomingProjectID, now, nextPid, nextRid, cl, rl, db, fs,
                   wt, txn>>

-----------------------------------------------------------------------------
(* Spec: the facade and the classifier, one call at a time *)

\* how a closure ends: it returns nil, returns an error, or panics
FnOutcomes ==
    {[kind |-> "nil", val |-> ""]}
        \cup {[kind |-> "error", val |-> e] : e \in {"e1", "e2"}}
        \cup {[kind |-> "panic", val |-> "v1"]}

\* the row a closure inserts into table projects with tx.Exec
TxRow(id) ==
    [id |-> id, name |-> <<id>>, description |-> <<>>, is_active |-> TRUE,
     created_at |-> now, updated_at |-> now]

TxRowIds == {"x", "y", "w"}

\* table projects inside the transaction after the closure's insert
Staged(id) ==
    IF ProjectConstraintsOk(TxRow(id), projects)
    THEN projects \cup {TxRow(id)}
    ELSE projects

\* a call of a transaction helper with a closure that inserts a project row
\* and then ends as fn says
WithTransaction(helper, id, fn, beginErr, rollbackErr, commitErr) ==
    /\ phase = "running"
    /\ LET o == WithTransactionOutcome(helper, Staged(id), fn, beginErr,
                                       rollbackErr, commitErr) IN
       /\ txn' = o.txn
       /\ projects' = o.projects
    /\ UNCHANGED <<phase, rules, files, heap, cset, incomingProjectID, now,
                   nextPid, nextRid, ret, cl, rl, db, fs, wt, imp>>

Workers == {"w1", "w2"}
Reloaders == {"t1", "t2"}

\* a fresh installation: no catalog file yet
Init ==
    /\ phase = "new"
    /\ projects = {}
    /\ rules = {}
    /\ files = {}
    /\ heap = [a \in Addrs |-> <<>>]
    /\ cset = NilSlice
    /\ incomingProjectID = ""
    /\ now = 0
    /\ nextPid = 0
    /\ nextRid = 0
    /\ ret = Ret("", "nil", "")
    /\ cl = [w \in Workers |-> IdleCl]
    /\ rl = [t \in Reloaders |-> IdleRl]
    /\ db = NoDatabase
    /\ fs = [p \in FolderPaths |-> "none"]
    /\ wt = NoWatcher
    /\ imp = NoWalk
    /\ txn = NoTx

NameA == <<"A">>

ProjectInput(id, name, active) ==
    [id |-> id, name |-> name, description |-> <<>>, is_active |-> active]

RuleInput(id, pid, shape) ==
    [id |-> id, name |-> <<"r">>, project_id |-> pid, rule |-> shape.rule,
     texts |-> Marshal(shape.texts), case_sensitive |-> shape.cs]

ShapeStartsA == [rule |-> "starts_with", texts |-> <<<<"a">>>>, cs |-> TRUE]
ShapeExtP == [rule |-> "extension", texts |-> <<<<"b">>, <<"p">>>>, cs |-> FALSE]

Next ==
    \/ Startup
    \/ /\ nextPid < MaxProjectIds
       /\ CreateProject(ProjectInput("", NameA, TRUE))
    \/ \E q \in projects, active \in BOOLEAN :
           UpdateProject(ProjectInput(q.id, q.name, active))
    \/ \E id \in ProjectIdsInUse : DeleteProject(id)
    \/ /\ nextRid < MaxRuleIds
       /\ \E pid \in ProjectIdsInUse :
              CreateRule(RuleInput("", pid, ShapeStartsA))
    \/ \E q \in rules : UpdateRule(RuleInput(q.id, q.project_id, ShapeExtP))
    \/ \E id \in RuleIdsInUse : DeleteRule(id)
    \/ Classify(PathAP, 1, 0)

Spec == Init /\ [][Next]_vars

-----------------------------------------------------------------------------
(* Claims checked under Spec *)

\* the file row of the path the last call was about
RetRow == CHOOSE f \in files : f.path = ret.path

\* C6 (as claimed): a classify call assigns a file by a rule only if that
\* rule's project is active in the catalog at that time.
C6_OnlyActiveProjectsClassify ==
    (ret.op = "Classify" /\ ret.err = "nil" /\ ret.rule # "")
        => \E p \in projects :
               /\ p.id = RetRow.project_id.str
               /\ p.is_active

\* C7 (as claimed): after startup the catalog always holds a project named
\* exactly "Incoming" whose id is the classifier's cached incoming id.
C7_IncomingAlwaysExists ==
    phase = "running"
        => \E p \in projects :
               /\ p.name = IncomingProjectName
               /\ p.id = incomingProjectID

\* C11 (as claimed): every file row classify has written has ext equal to
\* the lower-cased extension of its name, without the dot, and name equal to
\* the base name of its path in its original case.
C11_ExtStoredLowerCase ==
    \A f \in files :
        /\ f.ext = ToLower(ExtOf(f.name))
        /\ f.name = Basename(f.path)

-----------------------------------------------------------------------------
(* SpecNames: project create and update calls with names that differ in
   case, in surrounding blanks and in validity *)

ProjectNames ==
    {NameA, <<"a">>, <<" ", "A">>, <<"A", " ">>, IncomingProjectName,
     <<"NBSP", "A">>, <<" ">>, <<"A", " ", " ", "B">>}

NextNames ==
    \/ Startup
    \/ /\ nextPid < MaxNamedProjects
       /\ \E name \in ProjectNames :
              CreateProject(ProjectInput("", name, TRUE))
    \/ \E q \in projects, name \in ProjectNames :
           UpdateProject(ProjectInput(q.id, name, TRUE))

SpecNames == Init /\ [][NextNames]_vars

UniqueNames ==
    \A p, q \in projects :
        trimWhitespace(p.name) = trimWhitespace(q.name) => p = q

\* the project rows other than the one input p is about
OtherProjects(p) == {q \in projects : q.id # p.id}

\* C9: no two project rows have the same trimmed name, names that differ
\* only in case being different names; a create or an update whose trimmed
\* name is the name of another project returns already_exists and changes
\* no row.
C9_UniqueProjectNames ==
    [][/\ UniqueNames'
       /\ \A name \in ProjectNames, id \in ProjectIdsInUse \cup {""} :
              LET p == ProjectInput(id, name, TRUE) IN
              (/\ CreateProject(p) \/ UpdateProject(p)
               /\ \E q \in OtherProjects(p) : q.name = trimWhitespace(name))
                  => /\ ret'.err = "already_exists"
                     /\ projects' = projects]_vars

\* C9 witness: a create of " A" or "A " was turned down because "A" exists,
\* while "a" is stored next to "A"
C9_Witness ==
    /\ ret.op = "CreateProject"
    /\ ret.err = "already_exists"
    /\ \E p, q \in projects : p.name = NameA /\ q.name = <<"a">>

-----------------------------------------------------------------------------
(* SpecTime: the facade with the clock running *)

NextTime ==
    \/ Startup
    \/ /\ nextPid < MaxProjectIds
       /\ CreateProject(ProjectInput("", NameA, TRUE))
    \/ \E q \in projects :
           UpdateProject(ProjectInput(q.id, q.name, TRUE))
    \/ /\ nextRid < MaxRuleIds
       /\ \E pid \in ProjectIdsInUse :
              CreateRule(RuleInput("", pid, ShapeStartsA))
    \/ \E q \in rules : UpdateRule(RuleInput(q.id, q.project_id, ShapeExtP))
    \/ Classify(PathAP, 1, 0)
    \/ Tick

SpecTime == Init /\ [][NextTime]_vars

TimestampsOrdered ==
    \A row \in projects \cup rules \cup files :
        row.updated_at >= row.created_at

\* the pairs <<before, after>> of the rows of a table that a step rewrote
Rewritten(before, after) ==
    {pair \in before \X after :
        pair[1].id = pair[2].id /\ pair[1] # pair[2]}

\* C10 (as claimed): every stored row has updated_at >= created_at, and a
\* successful update leaves the row with updated_at > created_at and with
\* updated_at not before the value it replaced.
C10_UpdatedAtAdvances ==
    [][/\ TimestampsOrdered'
       /\ ret'.err = "nil" =>
              \A pair \in Rewritten(projects, projects')
                          \cup Rewritten(rules, rules')
                          \cup Rewritten(files, files') :
                  /\ pair[2].updated_at > pair[2].created_at
                  /\ pair[2].updated_at >= pair[1].updated_at]_vars

-----------------------------------------------------------------------------
(* SpecStore: the file repository called directly *)

\* what a caller may pass: no id, the id of a stored row or another id; two
\* versions of the file's attributes; no project, the Incoming project or a
\* project that does not exist
FileInputs ==
    {[id |-> id, path |-> path, name |-> v.name, ext |-> <<"P">>,
      size |-> v.size, mtime |-> v.mtime, project_id |-> pid] :
        id \in {"", "f1", "f2"},
        path \in {PathAP, PathB},
        v \in {[name |-> <<"a", ".", "P">>, size |-> 1, mtime |-> 0],
               [name |-> <<"A", ".", "P">>, size |-> 2, mtime |-> 1]},
        pid \in {NullProjectID,
                 [valid |-> TRUE, str |-> "p1"],
                 [valid |-> TRUE, str |-> CallerUUID]}}

NextStore ==
    \/ Startup
    \/ \E f \in FileInputs : UpsertFile(f)
    \/ Tick

SpecStore == Init /\ [][NextStore]_vars

\* C2: when upsert(f) succeeds, get_by_path(f.path) right after it returns
\* one row with the name, ext, size, mtime and project_id of f, and with
\* the id and created_at of the row the path had before, if it had one.
C2_UpsertThenGetByPath ==
    [][\A f \in FileInputs :
           (UpsertFile(f) /\ ret'.err = "nil")
               => /\ Cardinality(GetByPath(f.path)') = 1
                  /\ \A got \in GetByPath(f.path)' :
                         /\ got.name = f.name
                         /\ got.ext = f.ext
                         /\ got.size = f.size
                         /\ got.mtime = f.mtime
                         /\ got.project_id = f.project_id
                         /\ \A old \in GetByPath(f.path) :
                                /\ got.id = old.id
                                /\ got.created_at = old.created_at]_vars

\* C2 witness: a path whose row was created in an earlier second under one
\* id has been rewritten by an upsert
C2_Witness ==
    /\ ret.op = "Upsert"
    /\ ret.err = "nil"
    /\ \E g \in files :
           /\ g.path = ret.path
           /\ g.id = "f2"
           /\ g.size = 2
           /\ g.created_at < g.updated_at

-----------------------------------------------------------------------------
(* SpecReload: startup on a catalog file that already holds projects and
   rules, among them rules written before rules were validated: texts that
   are not JSON, a pattern that does not compile *)

StoredRow(id, pid, kind, texts, cs) ==
    [id |-> id, name |-> <<"r">>, project_id |-> pid, rule |-> kind,
     texts |-> texts, case_sensitive |-> cs, created_at |-> 0,
     updated_at |-> 0]

StoredRules ==
    {StoredRow("r1", "p2", "starts_with", Marshal(<<<<"a">>>>), TRUE),
     StoredRow("r2", "p2", "regex", Marshal(<<<<"(", "a">>>>), FALSE),
     StoredRow("r3", "p1", "extension", [valid |-> FALSE, items |-> <<>>],
               FALSE),
     StoredRow("r4", "p1", "regex", Marshal(<<<<"^", "A">>>>), FALSE)}

StoredProjects(active) ==
    {[id |-> "p1", name |-> IncomingProjectName, description |-> <<>>,
      is_active |-> TRUE, created_at |-> 0, updated_at |-> 0],
     [id |-> "p2", name |-> NameA, description |-> <<>>,
      is_active |-> active, created_at |-> 0, updated_at |-> 0]}

InitReload ==
    /\ phase = "new"
    /\ \E active \in BOOLEAN : projects = StoredProjects(active)
    /\ rules \in SUBSET StoredRules
    /\ files = {}
    /\ heap = [a \in Addrs |-> <<>>]
    /\ cset = NilSlice
    /\ incomingProjectID = ""
    /\ now = 0
    /\ nextPid = 2
    /\ nextRid = Cardinality(StoredRules)
    /\ ret = Ret("", "nil", "")
    /\ cl = [w \in Workers |-> IdleCl]
    /\ rl = [t \in Reloaders |-> IdleRl]
    /\ db = NoDatabase
    /\ fs = [p \in FolderPaths |-> "none"]
    /\ wt = NoWatcher
    /\ imp = NoWalk
    /\ txn = NoTx

NextReload ==
    \/ Startup
    \/ Reload
    \/ \E q \in projects, active \in BOOLEAN :
           UpdateProject(ProjectInput(q.id, q.name, active))
    \/ \E id \in RuleIdsInUse : DeleteRule(id)
    \/ Classify(PathAP, 1, 0)

SpecReload == InitReload /\ [][NextReload]_vars

\* the ids of the rules of the published set, in order
PublishedIds == [i \in 1..cset.len |-> heap[cset.ptr][i].RuleID]

\* C5: a reload succeeds whatever rules fail to compile, and the set it
\* publishes holds each active rule that compiles exactly once, in ascending
\* priority, and no other rule.
C5_ReloadSkipsBadRules ==
    [][ret'.op \in {"startup", "Reload", "DeleteRule"}
           => /\ ret'.err = "nil"
              /\ Range(PublishedIds') =
                     {r.id : r \in {q \in ActiveRules(rules', projects') :
                                       ~compileRule(q).err}}
              /\ Cardinality(Range(PublishedIds')) = Len(PublishedIds')
              /\ IsSortedByPriority(Elems(heap', cset'))]_vars

\* C5 witness: a reload over active rules with bad texts and a bad pattern
\* has published the two good ones
C5_Witness ==
    /\ ret.op \in {"startup", "Reload"}
    /\ ActiveRules(rules, projects) = StoredRules
    /\ Range(PublishedIds) = {"r1", "r4"}

-----------------------------------------------------------------------------
(* SpecConc: one classify call and one reload in any interleaving, the
   catalog changing in between *)

InitConc ==
    /\ InitReload
    /\ projects = StoredProjects(TRUE)
    /\ rules = {r \in StoredRules : r.id \in {"r1", "r4"}}

NextConc ==
    \/ Startup
    \/ \E active \in BOOLEAN :
           UpdateProject(ProjectInput("p2", NameA, active))
    \/ \E path \in {PathAP, PathA} : ClassifyCapture("w1", path, 1, 0)
    \/ ClassifyIter("w1")
    \/ ClassifyUpsert("w1")
    \/ ReloadList("t1")
    \/ ReloadCompile("t1")
    \/ ReloadPublish("t1")

SpecConc == InitConc /\ [][NextConc]_vars

\* what each classify call in its loop captured is still what its slice
\* denotes
SnapshotsIntact(h, c) ==
    \A w \in Workers :
        c[w].pc = "loop" => Elems(h, c[w].snap) = c[w].seen

\* the listings a step that stores a new set compiled from
PublishedFrom ==
    IF phase = "new" THEN ListActive(rules', projects')
    ELSE {rl[t].listed : t \in {u \in Reloaders : rl[u].pc = "compile"}}

\* C4: a classify call captures the whole set published at that moment and
\* reads its rules from it alone; every set a reload stores is the complete
\* compilation of the rules it listed; and no step changes a set that a
\* classify call is iterating over.
C4_SnapshotAtomicity ==
    [][/\ SnapshotsIntact(heap', cl')
       /\ \A w \in Workers :
              /\ (cl[w].pc = "idle" /\ cl'[w].pc # "idle")
                     => /\ cl'[w].snap = cset
                        /\ cl'[w].seen = Elems(heap, cset)
              /\ (cl[w].pc = "loop" /\ cl'[w].matchedRule # "")
                     => cl'[w].matchedRule = cl[w].seen[cl[w].i].RuleID
       /\ cset' # cset
              => \E listed \in PublishedFrom :
                     Elems(heap', cset') \in SortSlice(CompileAll(listed))]_vars

\* C4 witness: a classify call is in its loop over a set that a reload has
\* meanwhile replaced by a different one
C4_Witness ==
    /\ cl["w1"].pc = "loop"
    /\ cl["w1"].i = 2
    /\ cl["w1"].snap.ptr # cset.ptr
    /\ Len(cl["w1"].seen) = 2
    /\ cset.len = 1

\* the positions of the rules of a captured set whose match predicate is
\* true for the file name
Hits(seen, name) ==
    {i \in 1..Len(seen) : matches(seen[i], name, ExtOf(name))}

\* the project first-match-wins gives a file name under a captured set
FirstHitProject(seen, name) ==
    IF Hits(seen, name) = {} THEN incomingProjectID
    ELSE seen[CHOOSE i \in Hits(seen, name) :
                  \A j \in Hits(seen, name) : i <= j].ProjectID

\* C1: the row a classify call upserts carries the project of the first
\* rule, in the order of the set the call captured, that matches the file
\* name, and the Incoming project id when none matches.
C1_FirstMatchWins ==
    [][\A w \in Workers :
           (cl[w].pc = "upsert" /\ cl'[w].pc = "idle" /\ ret'.err = "nil")
               => \E row \in files' :
                      /\ row.path = cl[w].path
                      /\ row.project_id.valid
                      /\ row.project_id.str =
                             FirstHitProject(cl[w].seen, cl[w].name)]_vars

\* C1 witness: a file that both rules of the captured set match was given
\* the project of the first, which is not the project of the second
C1_Witness ==
    /\ ret.op = "Classify"
    /\ ret.err = "nil"
    /\ ret.path = PathAP
    /\ ret.rule = "r1"
    /\ cset.len = 2
    /\ heap[cset.ptr][1].RuleID = "r1"
    /\ heap[cset.ptr][2].RuleID = "r4"
    /\ \E row \in files : row.path = PathAP /\ row.project_id.str = "p2"

-----------------------------------------------------------------------------
(* SpecIdem: classify calls on one path with the same metadata, one after
   another or interleaved, while the rules stay as they are *)

NextIdem ==
    \/ Startup
    \/ \E w \in Workers : ClassifyCapture(w, PathAP, 1, 0)
    \/ \E w \in Workers : ClassifyIter(w)
    \/ \E w \in Workers : ClassifyUpsert(w)
    \/ Tick

SpecIdem == InitReload /\ [][NextIdem]_vars

OneRowPerPath == \A f, g \in files : f.path = g.path => f = g

\* C3: once a classify call has stored the row of the path, every further
\* call leaves one row for the path with the same id, created_at, name,
\* ext, size, mtime and project_id.
C3_ClassifyIdempotent ==
    [][/\ OneRowPerPath'
       /\ \A f \in files :
              \E g \in files' :
                  /\ g.path = f.path
                  /\ g.id = f.id
                  /\ g.created_at = f.created_at
                  /\ g.name = f.name
                  /\ g.ext = f.ext
                  /\ g.size = f.size
                  /\ g.mtime = f.mtime
                  /\ g.project_id = f.project_id]_vars

\* C3 witness: a call has rewritten, in a later second, the row an earlier
\* call stored, while another call on the path is still under way
C3_Witness ==
    /\ ret.op = "Classify"
    /\ ret.err = "nil"
    /\ cl["w2"].pc = "upsert"
    /\ \E f \in files : f.path = PathAP /\ f.created_at < f.updated_at

-----------------------------------------------------------------------------
(* SpecRules: projects and rules created, moved and deleted, with rule
   inputs that name a project that does not exist *)

NextRules ==
    \/ Startup
    \/ /\ nextPid < MaxProjectIds
       /\ CreateProject(ProjectInput("", NameA, TRUE))
    \/ \E q \in projects, active \in BOOLEAN :
           UpdateProject(ProjectInput(q.id, q.name, active))
    \/ \E id \in ProjectIdsInUse : DeleteProject(id)
    \/ /\ nextRid < MaxRuleIds
       /\ \E pid \in ProjectIdsInUse \cup {CallerUUID} :
              CreateRule(RuleInput("", pid, ShapeStartsA))
    \/ \E q \in rules, pid \in ProjectIdsInUse \cup {CallerUUID} :
           UpdateRule(RuleInput(q.id, pid, ShapeStartsA))
    \/ \E id \in RuleIdsInUse : DeleteRule(id)

SpecRules == Init /\ [][NextRules]_vars

RefIntegrity == \A r \in rules : r.project_id \in ProjectIdsInUse

\* C8: every rule row refers to an existing project; a rule create or
\* update naming a project that does not exist is rejected and changes no
\* rule; deleting a project removes exactly the rules of that project, in
\* the same step.
C8_RulesReferToProjects ==
    [][/\ RefIntegrity'
       /\ (ret'.op \in {"CreateRule", "UpdateRule"}
           /\ ret'.arg \notin ProjectIdsInUse)
              => (ret'.err # "nil" /\ rules' = rules)
       /\ (ret'.op = "DeleteProject" /\ ret'.err = "nil")
              => /\ ret'.arg \notin {p.id : p \in projects'}
                 /\ rules' = {r \in rules : r.project_id # ret'.arg}]_vars

\* C8 witness: a rule naming a missing project was turned down while rules
\* of existing projects are stored
C8_Witness ==
    /\ ret.op \in {"CreateRule", "UpdateRule"}
    /\ ret.arg \notin ProjectIdsInUse
    /\ ret.err = "storage"
    /\ rules # {}

\* the compiled forms of the rules of active projects that compile, for
\* tables rs and ps
CompiledActive(rs, ps) ==
    {compileRule(r).cr :
        r \in {q \in rs : /\ \E p \in ps : p.id = q.project_id /\ p.is_active
                          /\ ~compileRule(q).err}}

\* C12: when a facade create_rule, update_rule or delete_rule returns
\* without error, the classifier's set holds the compiled form of each rule
\* of an active project in the catalog as the call left it, once, and
\* nothing else.
C12_RuleMutationReloads ==
    [][(ret'.op \in {"CreateRule", "UpdateRule", "DeleteRule"}
        /\ ret'.err = "nil")
           => /\ Range(Elems(heap', cset')) = CompiledActive(rules', projects')
              /\ cset'.len = Cardinality(CompiledActive(rules', projects'))
              /\ \A cr \in Range(Elems(heap', cset')) :
                     \E p \in projects' :
                         p.id = cr.ProjectID /\ p.is_active]_vars

\* C12 witness: a rule call has returned with a set of one rule while the
\* catalog holds a second rule, of an inactive project
C12_Witness ==
    /\ ret.op \in {"CreateRule", "UpdateRule", "DeleteRule"}
    /\ ret.err = "nil"
    /\ cset.len = 1
    /\ Cardinality(rules) = 2
    /\ \E r \in rules : \E p \in projects :
           p.id = r.project_id /\ ~p.is_active

-----------------------------------------------------------------------------
(* SpecFault: rule calls whose reload cannot list the catalog *)

RuleInputs ==
    {RuleInput(id, pid, shape) :
        id \in RuleIdsInUse \cup {""},
        pid \in ProjectIdsInUse \cup {CallerUUID},
        shape \in {ShapeStartsA, ShapeExtP}}

NextFault ==
    \/ Startup
    \/ /\ nextRid < MaxRuleIds
       /\ \E r \in RuleInputs : r.id = "" /\ CreateRule(r)
    \/ /\ nextRid < MaxRuleIds
       /\ \E r \in RuleInputs : r.id = "" /\ CreateRuleListFails(r)
    \/ \E r \in RuleInputs : r.id # "" /\ UpdateRuleListFails(r)
    \/ \E id \in RuleIdsInUse : DeleteRuleListFails(id)

SpecFault == Init /\ [][NextFault]_vars

\* C13: when the repository call of a rule method succeeds and the reload
\* after it fails, the method returns the reload's error, the rule change
\* is in the catalog and the classifier's set is what it was.
C13_ReloadFailureKeepsSet ==
    [][/\ \A r \in RuleInputs :
              /\ (CreateRuleListFails(r) /\ RuleCreate(r).err = "nil")
                     => /\ ret'.err = "list_failed"
                        /\ rules' = RuleCreate(r).rules
                        /\ Cardinality(rules') = Cardinality(rules) + 1
              /\ (UpdateRuleListFails(r) /\ RuleUpdate(r).err = "nil")
                     => /\ ret'.err = "list_failed"
                        /\ \E row \in rules' :
                               /\ row.id = r.id
                               /\ row.project_id = r.project_id
                               /\ row.rule = r.rule
                               /\ row.texts = r.texts
       /\ \A id \in RuleIdsInUse :
              DeleteRuleListFails(id)
                  => /\ ret'.err = "list_failed"
                     /\ rules' = {q \in rules : q.id # id}
       /\ ret'.err = "list_failed"
              => /\ cset' = cset
                 /\ Elems(heap', cset') = Elems(heap, cset)]_vars

\* C13 witness: a rule call returned the reload's error; the new rule is
\* stored and the set, built before, does not hold it
C13_Witness ==
    /\ ret.op = "CreateRule"
    /\ ret.err = "list_failed"
    /\ Cardinality(rules) = 2
    /\ cset.len = 1

-----------------------------------------------------------------------------
(* SpecWatch: the application watching its folder while entries of the
   folder come, go and are renamed *)

NextWatch ==
    \/ Startup
    \/ \E path \in WatchedPaths, kind \in {"file", "dir"} :
           FsCreate(path, kind)
    \/ \E path \in WatchedPaths : FsRemove(path)
    \/ \E path \in WatchedPaths : FsDeny(path)
    \/ \E old \in WatchedPaths, new \in WatchedPaths : FsRename(old, new)
    \/ LoopReceive
    \/ LoopHandle
    \/ LoopExit
    \/ Stop

SpecWatch == InitConc /\ [][NextWatch]_vars

\* C14: the loop passes an event to Classify, once and with the event's
\* path, exactly when the event's mask has the create or the rename bit and
\* a stat of the path at that moment finds a regular file; for every other
\* event (another operation, a directory, a path that is gone or cannot be
\* looked at) no file row is created or changed.
C14_ClassifiesCreatedFiles ==
    [][LoopHandle =>
         LET e == wt.cur
             wanted == /\ ("Create" \in e.op \/ "Rename" \in e.op)
                       /\ fs[e.name] = "file"
         IN /\ (ret'.op = "Classify" /\ ret'.path = e.name) <=> wanted
            /\ ~wanted => files' = files]_vars

\* an event for a regular file has been classified into a row of its path
C14_Witness ==
    /\ ret.op = "Classify"
    /\ ret.err = "nil"
    /\ fs[ret.path] = "file"
    /\ \E row \in files : row.path = ret.path /\ row.project_id.str = ret.arg

\* C15: when an entry is renamed inside the folder, handling the rename
\* event of the old name changes no row, handling the create event of the
\* new name leaves a row keyed on the new path, and no step of the loop
\* removes or modifies a row of a path other than the event's: the row
\* keyed on the old path stays as it was.
C15_RenameKeepsOldRow ==
    [][LoopHandle =>
         LET e == wt.cur IN
         /\ \A row \in files : row.path # e.name => row \in files'
         /\ ("Rename" \in e.op /\ fs[e.name] = "none") => files' = files
         /\ ("Create" \in e.op /\ fs[e.name] = "file" /\ ~wt.cancelled)
                => \E row \in files' : row.path = e.name]_vars

\* the file of a row has been renamed and classified again: the row of the
\* old path is still there, next to the row of the new path
C15_Witness ==
    \E old \in files, new \in files :
        /\ old.path # new.path
        /\ fs[old.path] = "none"
        /\ fs[new.path] = "file"
        /\ ret.op = "Classify"
        /\ ret.path = new.path
        /\ wt.events = <<>>

-----------------------------------------------------------------------------
(* SpecWatchFaults: the same, with projects deleted under the watcher, so
   that classifications fail on the catalog as well as stats on the folder *)

NextWatchFaults ==
    \/ Startup
    \/ \E path \in WatchedPaths, kind \in {"file", "dir"} :
           FsCreate(path, kind)
    \/ \E path \in WatchedPaths : FsRemove(path)
    \/ \E path \in WatchedPaths : FsDeny(path)
    \/ LoopReceive
    \/ LoopHandle
    \/ LoopExit
    \/ Stop
    \/ DeleteProject("p2")

SpecWatchFaults == InitConc /\ [][NextWatchFaults]_vars

\* C16: the goroutine of the loop ends only after Stop; while Stop has not
\* been called, handling an event, whatever its stat or its classification
\* returns, leaves the loop waiting with its subscription open and the
\* queued events in place, and after an error was logged an event with the
\* create or rename bit for a regular file is still passed to Classify.
C16_ErrorsKeepLoop ==
    /\ [](wt.loop = "exited" => wt.cancelled)
    /\ [][(LoopHandle /\ ~wt.cancelled) =>
            LET e == wt.cur IN
            /\ wt'.loop = "idle"
            /\ wt'.sub = "open"
            /\ wt'.events = wt.events
            /\ (/\ wt.logged
                /\ ("Create" \in e.op \/ "Rename" \in e.op)
                /\ fs[e.name] = "file")
                   => ret'.op = "Classify" /\ ret'.path = e.name]_vars

\* an error was logged, and a later event has been classified into a row
C16_Witness ==
    /\ wt.logged
    /\ ~wt.cancelled
    /\ wt.loop = "idle"
    /\ ret.op = "Classify"
    /\ ret.err = "nil"
    /\ \E row \in files : row.path = ret.path

\* an event's classification has failed on the catalog and the loop waits
\* for the next
C16_WitnessClassifyError ==
    /\ ~wt.cancelled
    /\ wt.loop = "idle"
    /\ ret.op = "Classify"
    /\ ret.err = "storage"

-----------------------------------------------------------------------------
(* SpecStop: a watcher made, started and stopped by calls of the package's
   functions, as its tests make them.  The goroutine of Start is scheduled
   fairly, and its select, which picks at random among the cases that are
   ready, does not pass over the cancellation forever. *)

NextStop ==
    \/ NewWatcher
    \/ Start
    \/ Stop
    \/ \E path \in WatchedPaths : FsCreate(path, "file")
    \/ \E path \in WatchedPaths : FsRemove(path)
    \/ LoopReceive
    \/ LoopHandle
    \/ LoopExit

SpecStop ==
    /\ InitConc
    /\ [][NextStop]_vars
    /\ WF_vars(LoopHandle)
    /\ SF_vars(LoopExit)

\* C17: once Stop has been called on a watcher that NewWatcher returned,
\* the fsnotify subscription is eventually closed, whether or not Start was
\* ever called, and a further Stop changes nothing of the watcher.
C17_StopReleasesSubscription ==
    /\ [](wt.cancelled => <>(wt.sub = "closed"))
    /\ [][(Stop /\ wt.cancelled) => wt' = wt]_vars

\* the same for the watchers whose goroutine was started
C17_StartedStopReleases ==
    [](wt.cancelled /\ wt.loop # "none" => <>(wt.sub = "closed"))

\* Stop was called on a watcher that was never started, and its
\* subscription is open
C17_StoppedNeverStarted ==
    wt.made /\ wt.cancelled /\ wt.loop = "none" /\ wt.sub = "open"

-----------------------------------------------------------------------------
(* SpecDb: InitializeDatabase and CloseDatabase called in any order, by the
   application's startup and directly, with the failures the environment
   can cause, on any catalog file an earlier run has left *)

NextDb ==
    \/ Startup
    \/ \E fault \in InitFaults : InitializeDatabase(fault)
    \/ \E closeErr \in BOOLEAN : CloseDatabase(closeErr)

SpecDb == InitReload /\ [][NextDb]_vars

\* C18: CloseDatabase returns no error when the handle is nil (never
\* initialized, or closed already), and GetDB is nil after every
\* CloseDatabase call, whatever Close returned; InitializeDatabase on an
\* initialized store, the environment permitting, returns no error and
\* leaves GetDB non-nil.
C18_InitCloseSequences ==
    [][/\ \A closeErr \in BOOLEAN :
              CloseDatabase(closeErr) =>
                  /\ GetDB(db') = 0
                  /\ GetDB(db) = 0 => ret'.err = "nil"
       /\ (InitializeDatabase("none") /\ GetDB(db) # 0) =>
              /\ ret'.err = "nil"
              /\ GetDB(db') \notin {0, GetDB(db)}
              /\ db'.open = {GetDB(db')}]_vars

\* the store was initialized again while initialized, and then closed; a
\* CloseDatabase on the closed store has returned nil
C18_Witness ==
    /\ ret.op = "CloseDatabase"
    /\ ret.err = "nil"
    /\ GetDB(db) = 0
    /\ db.n = MaxHandles
    /\ db.open = {}

-----------------------------------------------------------------------------
(* SpecImport: ImportFolder over a folder that was filled before the
   application started, with a directory that cannot be read, entries whose
   file information cannot be had, and project p2 deleted so that
   classifications into it fail *)

NextImport ==
    \/ \E path \in FolderPaths, kind \in {"file", "dir"} :
           FsCreate(path, kind)
    \/ \E path \in FolderPaths : FsDeny(path)
    \/ Startup
    \/ DeleteProject("p2")
    \/ \E unreadable \in SUBSET {PathA, PathAP}, gone \in SUBSET {PathAP} :
           ImportStart(unreadable, gone)
    \/ ImportVisit
    \/ ImportReturn

SpecImport == InitConc /\ [][NextImport]_vars

\* the walk of the last ImportFolder call is over
WalkOver == imp.pos = 0 /\ ret.op = "ImportFolder"

\* the regular files of the listing were all passed to Classify
AllFilesSeen ==
    \A i \in 1..Len(WalkOrder) :
        imp.entries[i] = "file" => WalkOrder[i] \in imp.seen

\* C19: when ImportFolder returns, whatever error an entry of the folder
\* produced (a directory that cannot be read, file information that cannot
\* be had, a classification that fails), it returns nil and every regular
\* file of the folder has been passed to Classify.
C19_ImportWalkContinues ==
    WalkOver => (ret.err = "nil" /\ AllFilesSeen)

\* the same for the walks that meet no unreadable directory
C19_WalkWithoutAccessErrors ==
    (WalkOver /\ \A i \in 1..Len(WalkOrder) : imp.entries[i] # "unreadable")
        => (ret.err = "nil" /\ AllFilesSeen)

\* a walk has ended at an unreadable directory with a regular file after it
C19_AbortedWalk ==
    /\ WalkOver
    /\ ret.err = "access"
    /\ \E i \in 1..Len(WalkOrder) :
           imp.entries[i] = "file" /\ WalkOrder[i] \notin imp.seen

-----------------------------------------------------------------------------
(* SpecErrors: the facade, on a catalog an earlier run has left, called
   with inputs it must refuse (names and texts that fail validation,
   malformed ids, ids of no row, names in use) among calls that succeed *)

ShapeBadRegex == [rule |-> "regex", texts |-> <<<<"(", "a">>>>, cs |-> TRUE]

\* a string that is no UUID
MalformedId == "bad"

NextErrors ==
    \/ Startup
    \/ \E name \in {NameA, <<>>} :
           /\ nextPid < MaxProjectIds
                  \/ ProjectCreate(ProjectInput("", name, TRUE)).err # "nil"
           /\ CreateProject(ProjectInput("", name, TRUE))
    \/ \E q \in projects :
           \E name \in {q.name, IncomingProjectName, <<>>} :
               UpdateProject(ProjectInput(q.id, name, TRUE))
    \/ UpdateProject(ProjectInput(CallerUUID, NameA, TRUE))
    \/ \E id \in ProjectIdsInUse \cup {CallerUUID, MalformedId} :
           DeleteProject(id)
    \/ \E pid \in ProjectIdsInUse :
           CreateRule(RuleInput("", pid, ShapeBadRegex))
    \/ \E q \in rules, shape \in {ShapeExtP, ShapeBadRegex} :
           UpdateRule(RuleInput(q.id, q.project_id, shape))
    \/ UpdateRule(RuleInput(CallerUUID, incomingProjectID, ShapeExtP))
    \/ \E id \in RuleIdsInUse \cup {CallerUUID} : DeleteRule(id)
    \/ Classify(PathAP, 1, 0)

SpecErrors == InitConc /\ [][NextErrors]_vars

RefusedErrors == {"validation", "invalid_id", "not_found", "already_exists"}

FacadeMutations ==
    {"CreateProject", "UpdateProject", "DeleteProject", "CreateRule",
     "UpdateRule", "DeleteRule"}

\* C20: a create, update or delete of a project or a rule that returns a
\* validation, invalid-id, not-found or already-exists error leaves every
\* row of tables projects, rules and files as it was, and leaves the
\* classifier's compiled set and the array it points to as they were.
C20_RefusedCallsChangeNothing ==
    [][(ret'.op \in FacadeMutations /\ ret'.err \in RefusedErrors) =>
           /\ projects' = projects
           /\ rules' = rules
           /\ files' = files
           /\ cset' = cset
           /\ heap' = heap]_vars

\* a rule call was refused while the catalog holds projects, rules and
\* files, and the compiled set lags behind the rules
C20_Witness ==
    /\ ret.op \in {"CreateRule", "UpdateRule", "DeleteRule"}
    /\ ret.err \in RefusedErrors
    /\ rules # {}
    /\ files # {}
    /\ cset.len # Cardinality(ActiveRules(rules, projects))

-----------------------------------------------------------------------------
(* SpecValidate: a rule at a time created and updated with texts as
   callers write them: padded with white space, blank, null, with invalid
   bytes *)

TextItems ==
    {<<"a">>, <<" ", " ", "a", "NBSP">>, <<"b", " ">>, <<"TAB">>, JSONNull,
     <<"BAD">>}

MessyTexts ==
    {[valid |-> TRUE, items |-> <<x>>] : x \in TextItems}
    \cup {[valid |-> TRUE, items |-> <<x, y>>] : x \in TextItems,
                                                  y \in TextItems}
    \cup {[valid |-> FALSE, items |-> <<>>]}

MessyRule(id, pid, kind, texts) ==
    [id |-> id, name |-> <<" ", "r">>, project_id |-> pid, rule |-> kind,
     texts |-> texts, case_sensitive |-> TRUE]

\* a stored row handed back to the validator
AsInput(q) ==
    [id |-> q.id, name |-> q.name, project_id |-> q.project_id,
     rule |-> q.rule, texts |-> q.texts, case_sensitive |-> q.case_sensitive]

NextValidate ==
    \/ Startup
    \/ \E kind \in {"contains", "regex"}, texts \in MessyTexts :
           /\ (nextRid < MaxRuleIds /\ rules = {})
                  \/ RuleCreate(MessyRule("", incomingProjectID, kind,
                                          texts)).err # "nil"
           /\ CreateRule(MessyRule("", incomingProjectID, kind, texts))
    \/ \E q \in rules, texts \in MessyTexts :
           UpdateRule(MessyRule(q.id, q.project_id, q.rule, texts))
    \/ \E q \in rules : UpdateRule(AsInput(q))
    \/ \E id \in RuleIdsInUse : DeleteRule(id)

SpecValidate == Init /\ [][NextValidate]_vars

\* the non-empty entries of a list of texts
RECURSIVE NonEmpty(_)
NonEmpty(texts) ==
    IF texts = <<>> THEN <<>>
    ELSE IF Head(texts) = <<>> THEN NonEmpty(Tail(texts))
    ELSE <<Head(texts)>> \o NonEmpty(Tail(texts))

\* C21: for every rule the validator accepts, validating the rule it leaves
\* is accepted too and leaves the same texts, which are the JSON array of
\* the trimmed, non-empty entries of the input in their order.  Every row
\* of table rules is such a validated rule, and updating a rule with its
\* own row leaves its texts as they are.
C21_ValidateIdempotent ==
    /\ \A texts \in MessyTexts, kind \in {"contains", "regex"} :
           LET first == RuleValidate(MessyRule("", "p1", kind, texts))
               second == RuleValidate(first.rule)
               parsed == Unmarshal(texts).texts
           IN first.err = "nil" =>
                  /\ second.err = "nil"
                  /\ second.rule.texts = first.rule.texts
                  /\ Unmarshal(first.rule.texts).texts =
                         NonEmpty([i \in 1..Len(parsed) |->
                                      TrimSpace(parsed[i])])
    /\ \A q \in rules :
           LET again == RuleValidate(AsInput(q)) IN
           again.err = "nil" /\ again.rule.texts = q.texts

\* a rule whose texts needed trimming and dropping is stored, and an update
\* with its own row has been accepted
C21_Witness ==
    /\ ret.op = "UpdateRule"
    /\ ret.err = "nil"
    /\ \E q \in rules : q.texts = Marshal(<<<<"a">>, <<"FFFD">>>>)

-----------------------------------------------------------------------------
(* Further properties of Spec, the facade and the classifier *)

\* C22: every row of table files has a project_id that is not null and is
\* the id of the Incoming project or of the project of a rule, whatever
\* calls of the facade and classifications came before, the deletion of
\* the project that owns the file included.
C22_FilesHaveProject ==
    \A f \in files :
        /\ f.project_id.valid
        /\ \/ f.project_id.str = incomingProjectID
           \/ \E r \in rules : r.project_id = f.project_id.str
           \/ \E i \in 1..cset.len :
                  At(heap, cset, i).ProjectID = f.project_id.str

\* a file row whose project was deleted: its project_id is null
C22_OrphanedFile ==
    \E f \in files : ~f.project_id.valid

-----------------------------------------------------------------------------
(* SpecMatch: one stored rule of any kind, with one or two texts, case
   sensitive or not, compiled at startup and applied to the files of the
   folder *)

\* a catalog file with the projects ps and the rules rs, before startup
InitCatalog(ps, rs) ==
    /\ phase = "new"
    /\ projects = ps
    /\ rules = rs
    /\ files = {}
    /\ heap = [a \in Addrs |-> <<>>]
    /\ cset = NilSlice
    /\ incomingProjectID = ""
    /\ now = 0
    /\ nextPid = Cardinality(ps)
    /\ nextRid = Cardinality(rs)
    /\ ret = Ret("", "nil", "")
    /\ cl = [w \in Workers |-> IdleCl]
    /\ rl = [t \in Reloaders |-> IdleRl]
    /\ db = NoDatabase
    /\ fs = [p \in FolderPaths |-> "none"]
    /\ wt = NoWatcher
    /\ imp = NoWalk
    /\ txn = NoTx

MatchKinds == {"starts_with", "contains", "ends_with", "extension"}

MatchTexts ==
    {<<<<"z">>, <<"a">>>>, <<<<"z">>, <<"P">>>>, <<<<"z">>, <<"p">>>>,
     <<<<"A">>>>}

MatchRules ==
    {StoredRow("r1", "p2", kind, Marshal(texts), cs) :
        kind \in MatchKinds, texts \in MatchTexts, cs \in BOOLEAN}

InitMatch ==
    \E r \in MatchRules : InitCatalog(StoredProjects(TRUE), {r})

NextMatch ==
    \/ Startup
    \/ \E path \in FolderPaths : Classify(path, 1, 0)

SpecMatch == InitMatch /\ [][NextMatch]_vars

\* the name a rule's texts are compared with
TestName(cr, name) == IF cr.CaseSensitive THEN name ELSE ToLower(name)

\* some text of the rule is a prefix, a substring or a suffix of the name
AnyTextFits(cr, name) ==
    \E i \in 1..Len(cr.Texts) :
        CASE cr.Kind = "starts_with" -> HasPrefix(TestName(cr, name), cr.Texts[i])
          [] cr.Kind = "contains" -> Contains(TestName(cr, name), cr.Texts[i])
          [] cr.Kind = "ends_with" -> HasSuffix(TestName(cr, name), cr.Texts[i])
          [] OTHER -> FALSE

\* the names of the files of the folder
FileNames == {Basename(p) : p \in FolderPaths}

\* C23: for every compiled rule and every file name, the match predicate,
\* given the name and the extension Classify hands it, is true exactly when
\* some text of the rule (the first or a later one) is a prefix, a substring
\* or a suffix of the name, lower-cased when the rule is case-insensitive,
\* and for kind extension exactly when the lower-cased extension of the name
\* equals some text.
C23_MatchesAnyText ==
    \A i \in 1..cset.len, name \in FileNames :
        LET cr == At(heap, cset, i)
            ext == ExtOf(name)
        IN matches(cr, name, ext) <=>
               IF cr.Kind = "extension"
               THEN \E k \in 1..Len(cr.Texts) : ToLower(ext) = cr.Texts[k]
               ELSE AnyTextFits(cr, name)

\* the same for the three kinds that look at the name
C23_NameKinds ==
    \A i \in 1..cset.len, name \in FileNames :
        LET cr == At(heap, cset, i) IN
        cr.Kind # "extension" =>
            (matches(cr, name, ExtOf(name)) <=> AnyTextFits(cr, name))

\* a file was assigned by the second text of a rule
C23_SecondTextMatched ==
    /\ ret.op = "Classify"
    /\ ret.rule = "r1"
    /\ cset.len = 1
    /\ Len(At(heap, cset, 1).Texts) = 2
    /\ At(heap, cset, 1).Kind = "starts_with"

\* C24: a classify call with an extension rule in the rule-set assigns the
\* file by that rule exactly when one of the rule's compiled texts equals the
\* lower-cased extension of the file, for a case-sensitive rule as well: a
\* case-sensitive rule with text "p" takes a.P, and one whose text is "P"
\* takes no file.
C24_ExtensionComparedLowerCased ==
    (ret.op = "Classify" /\ cset.len = 1 /\ At(heap, cset, 1).Kind = "extension")
        => LET cr == At(heap, cset, 1)
               lowered == ToLower(ExtOf(Basename(ret.path)))
           IN (ret.rule = cr.RuleID) <=>
                  \E k \in 1..Len(cr.Texts) : cr.Texts[k] = lowered

-----------------------------------------------------------------------------
(* SpecRegex: one stored regex rule, case sensitive or not, compiled at
   startup and applied to names that differ in letter case only *)

RegexPatterns ==
    {<<"a", "1">>, <<"A">>, <<"^", "a">>, <<"\\", "D">>, <<"a", "\\", "d">>}

RegexRules ==
    {StoredRow("r1", "p2", "regex", Marshal(<<pattern>>), cs) :
        pattern \in RegexPatterns, cs \in BOOLEAN}

RegexPaths == {<<"/", "a", "1">>, <<"/", "A", "1">>, <<"/", "A">>}

InitRegex ==
    \E r \in RegexRules : InitCatalog(StoredProjects(TRUE), {r})

NextRegex ==
    \/ Startup
    \/ \E path \in RegexPaths : Classify(path, 1, 0)

SpecRegex == InitRegex /\ [][NextRegex]_vars

ToUpperChar(c) ==
    CASE c = "a" -> "A"
      [] c = "b" -> "B"
      [] c = "d" -> "D"
      [] c = "i" -> "I"
      [] c = "p" -> "P"
      [] OTHER -> c

\* the names that differ from name in the case of letters only
CaseVariants(name) ==
    {v \in [1..Len(name) -> {name[k] : k \in 1..Len(name)}
                             \cup {ToLowerChar(name[k]) : k \in 1..Len(name)}
                             \cup {ToUpperChar(name[k]) : k \in 1..Len(name)}] :
        ToLower(v) = ToLower(name)}

RegexNames == {Basename(p) : p \in RegexPaths} \cup {<<"1">>, <<"1", "a">>}

\* the stored pattern of a compiled regex rule
StoredPattern(cr) ==
    LET r == CHOOSE r \in rules : r.id = cr.RuleID
    IN Unmarshal(r.texts).texts[1]

\* C25: a compiled regex rule with case_sensitive = false gives the same
\* answer for every case variant of a name, and it matches a name exactly
\* when the stored pattern, taken as written, matches some case variant of
\* the name; a compiled regex rule with case_sensitive = true matches a name
\* exactly when the stored pattern matches the name as written, so the
\* pattern a1 matches a1 and not A1.
C25_RegexCase ==
    \A i \in 1..cset.len :
        LET cr == At(heap, cset, i)
            asWritten == regexpCompile(StoredPattern(cr)).re
        IN cr.Kind = "regex" =>
            /\ \A name \in RegexNames :
                IF cr.CaseSensitive
                THEN matches(cr, name, ExtOf(name))
                         <=> MatchString(asWritten, name)
                ELSE /\ \A v \in CaseVariants(name) :
                            matches(cr, v, ExtOf(v))
                                <=> matches(cr, name, ExtOf(name))
                     /\ matches(cr, name, ExtOf(name))
                            <=> \E v \in CaseVariants(name) :
                                    MatchString(asWritten, v)
            /\ (cr.CaseSensitive /\ StoredPattern(cr) = <<"a", "1">>)
                => /\ matches(cr, <<"a", "1">>, <<>>)
                   /\ ~matches(cr, <<"A", "1">>, <<>>)

\* a case-insensitive regex rule with a lower-case pattern that has an
\* escape took a file with an upper-case name
C25_Witness ==
    /\ ret.op = "Classify"
    /\ ret.rule = "r1"
    /\ ret.path = <<"/", "A", "1">>
    /\ cset.len = 1
    /\ ~At(heap, cset, 1).CaseSensitive
    /\ At(heap, cset, 1).Texts = <<<<"a", "\\", "d">>>>

-----------------------------------------------------------------------------
(* SpecTx: calls of the two transaction helpers with closures that insert a
   project row and return nil, return an error or panic, and with BeginTx,
   Rollback and Commit failing or not *)

TxHelpers == {"WithTransactionContext", "WithTransactionOptions"}

TxFaults == {"nil", "driver"}

NextTx ==
    \/ Startup
    \/ \E helper \in TxHelpers, id \in TxRowIds, fn \in FnOutcomes,
          beginErr, rollbackErr, commitErr \in TxFaults :
            WithTransaction(helper, id, fn, beginErr, rollbackErr, commitErr)

SpecTx == InitCatalog(StoredProjects(TRUE), {}) /\ [][NextTx]_vars

\* C26: after a helper call in which BeginTx succeeded, exactly one call was
\* made on the transaction, Commit or Rollback; it was Commit exactly when
\* the closure returned nil; when the closure returned an error the call was
\* Rollback and the helper returned an error that carries the closure's; when
\* the closure panicked the call was Rollback and the helper panicked with
\* the same value.  Table projects changes only in a call that committed
\* and returned nil.
C26_CommitXorRollback ==
    [][/\ txn'.began =>
            /\ Len(txn'.calls) = 1
            /\ txn'.calls[1] \in {"commit", "rollback"}
            /\ (txn'.calls[1] = "commit") <=> (txn'.fn.kind = "nil")
            /\ txn'.fn.kind = "error" =>
                /\ txn'.calls = <<"rollback">>
                /\ txn'.out.kind = "error"
                /\ txn'.out.text = txn'.fn.val
            /\ txn'.fn.kind = "panic" =>
                /\ txn'.calls = <<"rollback">>
                /\ txn'.out = TxPanic(txn'.fn.val)
       /\ projects' # projects =>
            (txn'.calls = <<"commit">> /\ txn'.out = TxNil)]_vars

\* a closure inserted a row and panicked, and Rollback failed as well
C26_Witness ==
    /\ txn.began
    /\ txn.fn.kind = "panic"
    /\ txn.printed
    /\ Cardinality(projects) = 3

-----------------------------------------------------------------------------
(* SpecFacade: rule methods of App called from two goroutines at once.  Each
   call is the repository's write, then Reload: the listing, then compiling,
   sorting and storing the set under the write lock.  The slice a Reload
   builds is its local variable until it is stored. *)

\* the rule method of goroutine t goes on to Reload when the repository
\* returned no error, and returns the error otherwise
AfterWrite(t, op, err, arg) ==
    IF err = "nil"
    THEN /\ rl' = [rl EXCEPT ![t].pc = "list"]
         /\ UNCHANGED ret
    ELSE /\ ret' = Ret(op, err, arg)
         /\ UNCHANGED rl

\* App.CreateRule up to the return of ruleRepo.Create
CreateRuleWrite(t, r) ==
    /\ phase = "running"
    /\ rl[t].pc = "idle"
    /\ LET c == RuleCreate(r) IN
       /\ rules' = c.rules
       /\ nextRid' = nextRid + c.gen
       /\ AfterWrite(t, "CreateRule", c.err, r.project_id)
    /\ UNCHANGED <<phase, projects, files, heap, cset, incomingProjectID, now,
                   nextPid, cl, db, fs, wt, imp, txn>>

\* App.UpdateRule up to the return of ruleRepo.Update
UpdateRuleWrite(t, r) ==
    /\ phase = "running"
    /\ rl[t].pc = "idle"
    /\ LET u == RuleUpdate(r) IN
       /\ rules' = u.rules
       /\ AfterWrite(t, "UpdateRule", u.err, r.project_id)
    /\ UNCHANGED <<phase, projects, files, heap, cset, incomingProjectID, now,
                   nextPid, nextRid, cl, db, fs, wt, imp, txn>>

\* App.DeleteRule up to the return of ruleRepo.Delete
DeleteRuleWrite(t, id) ==
    /\ phase = "running"
    /\ rl[t].pc = "idle"
    /\ LET d == RuleDelete(id) IN
       /\ rules' = d.rules
       /\ AfterWrite(t, "DeleteRule", d.err, id)
    /\ UNCHANGED <<phase, projects, files, heap, cset, incomingProjectID, now,
                   nextPid, nextRid, cl, db, fs, wt, imp, txn>>

\* Reload of a rule method: ListActive
MethodReloadList(t) ==
    /\ rl[t].pc = "list"
    /\ \E listed \in ListActive(rules, projects) :
           rl' = [rl EXCEPT ![t].pc = "store", ![t].listed = listed]
    /\ UNCHANGED <<phase, projects, rules, files, heap, cset,
                   incomingProjectID, now, nextPid, nextRid, ret, cl, db, fs,
                   wt, imp, txn>>

\* Reload of a rule method: compile what was listed, sort, store the slice
\* under the write lock, return nil
MethodReloadStore(t) ==
    /\ rl[t].pc = "store"
    /\ \E sorted \in SortSlice(CompileAll(rl[t].listed)) :
           /\ cset' = [ptr |-> Alloc, len |-> Len(sorted)]
           /\ heap' = Collect([heap EXCEPT ![Alloc] = sorted], {Alloc})
    /\ rl' = [rl EXCEPT ![t] = IdleRl]
    /\ ret' = Ret("Reload", "nil", "")
    /\ UNCHANGED <<phase, projects, rules, files, incomingProjectID, now,
                   nextPid, nextRid, cl, db, fs, wt, imp, txn>>

InitFacade ==
    InitCatalog(StoredProjects(TRUE), {r \in StoredRules : r.id = "r1"})

NextFacade ==
    \/ Startup
    \/ \E t \in Reloaders :
        \/ /\ nextRid < MaxRuleIds
           /\ CreateRuleWrite(t, RuleInput("", "p2", ShapeExtP))
        \/ \E q \in rules, shape \in {ShapeStartsA, ShapeExtP} :
               UpdateRuleWrite(t, RuleInput(q.id, "p2", shape))
        \/ \E id \in {"r1", "r2"} : DeleteRuleWrite(t, id)
        \/ MethodReloadList(t)
        \/ MethodReloadStore(t)

SpecFacade == InitFacade /\ [][NextFacade]_vars

\* the rule-set is the compiled form of some listing of the active rules of
\* the catalog as it is now
SetIsCurrent ==
    \E listed \in ListActive(rules, projects) :
        Elems(heap, cset) \in SortSlice(CompileAll(listed))

\* C27: when no rule method is in progress, the rule-set of the classifier is
\* the compiled form of what ListActive returns for the catalog, also after
\* rule methods ran at the same time.
C27_SetCurrentWhenQuiet ==
    (phase = "running" /\ \A t \in Reloaders : rl[t].pc = "idle")
        => SetIsCurrent

\* C28: every compiled rule of the classifier's rule-set carries the id of a
\* project of table projects, after DeleteProject as well, and so no classify
\* call that a rule matched is refused by the store for a project that does
\* not exist.
C28_RuleSetProjectsExist ==
    /\ \A i \in 1..cset.len :
           At(heap, cset, i).ProjectID \in {p.id : p \in projects}
    /\ (ret.op = "Classify" /\ ret.rule # "") => ret.err = "nil"

-----------------------------------------------------------------------------
(* Further properties of SpecReload *)

-----------------------------------------------------------------------------
(* SpecShutdown: the running application, files arriving in its folder, and
   Stop.  Fairness as in SpecStop: the goroutine of the loop is scheduled,
   and its select does not pass over the cancellation forever. *)

NextShutdown ==
    \/ Startup
    \/ Stop
    \/ \E path \in WatchedPaths : FsCreate(path, "file")
    \/ FsRemove(PathA)
    \/ LoopReceive
    \/ LoopHandle
    \/ LoopExit

SpecShutdown ==
    /\ InitConc
    /\ [][NextShutdown]_vars
    /\ WF_vars(LoopHandle)
    /\ SF_vars(LoopExit)

\* C30: the loop's handling of an event with the context already cancelled,
\* as it is for every event the loop takes after Stop, creates and changes
\* no file row; and once Stop was called on a started watcher its loop
\* eventually returns.
C30_NoRowsAfterStop ==
    /\ [][(LoopHandle /\ wt.cancelled) => files' = files]_vars
    /\ [](wt.cancelled /\ wt.loop # "none" => <>(wt.loop = "exited"))

\* the loop took the event of a regular file after Stop, its Classify failed
\* on the cancelled context, and the loop has returned; another file had been
\* recorded before Stop
C30_Witness ==
    /\ wt.cancelled
    /\ wt.loop = "exited"
    /\ ret.op = "Classify"
    /\ ret.err = "canceled"
    /\ files # {}
    /\ \A f \in files : f.path # ret.path

====
